---------------------------- MODULE Spec2Model ----------------------------
(***************************************************************************)
(* Study tracker: the engagement classifier (EngagementEngine), the        *)
(* session store (useSessionStore), the study page that drives both and    *)
(* the sync route of the API (POST /sync/sessions).                        *)
(*                                                                         *)
(* Units.  Timestamps and durations are milliseconds (the code divides a   *)
(* millisecond difference by 1000 and compares with a duration in seconds; *)
(* the model compares the millisecond difference with the duration in      *)
(* milliseconds).  Scores are kept in units of 1/ScoreScale point so that  *)
(* Math.round has something to round.  eyeAspectRatio and mouthOpenRatio   *)
(* are hundredths, confidence is tenths.                                   *)
(***************************************************************************)
EXTENDS Integers, Sequences, FiniteSets, TLC

VARIABLES
    config,         \* EngagementEngine.config
    stateHistory,   \* EngagementEngine.stateHistory: the four hysteresis timers
    scoreHistory,   \* EngagementEngine.scoreHistory
    log,            \* the processFrame calls made so far, with what each returned
    answer,         \* the latest getAverageScore, getTrendDirection or reset call, with what it returned
    currentSession, \* useSessionStore: currentSession (NoSession is null)
    now,            \* the wall clock (Date.now(), new Date()), in ms
    nextId,         \* the number of the next session id uuidv4() returns
    stop,           \* the stopSession call in flight, suspended on a storage write
    dbSessions,     \* IndexedDB store 'sessions'
    dbTimeSeries,   \* IndexedDB store 'timeseries'
    lastCall,       \* the latest store call: what was called, on what, with what outcome
    nudgedAt,       \* when recordNudge last recorded a nudge on a session
    timer,          \* Study: processingIntervalRef holds a running interval
    inflight,       \* Study: the interval callbacks suspended on an await
    fired,          \* Study: the number of interval callbacks started so far
    order,          \* Study: the callbacks in the order they reached processFrame
    lastNudgeState, \* Study: lastNudgeStateRef
    aggregates,     \* API: the SessionAggregate collection
    users,          \* API: the User collection
    response        \* API: the latest response of POST /sync/sessions

engineVars == <<config, stateHistory, scoreHistory, log, answer>>

storeVars == <<currentSession, now, nextId, stop, dbSessions, dbTimeSeries, lastCall,
               nudgedAt>>

pageVars == <<timer, inflight, fired, order, lastNudgeState>>

syncVars == <<aggregates, users, response>>

vars == <<config, stateHistory, scoreHistory, log, answer,
          currentSession, now, nextId, stop, dbSessions, dbTimeSeries, lastCall,
          nudgedAt, timer, inflight, fired, order, lastNudgeState,
          aggregates, users, response>>

----------------------------------------------------------------------------
(* Bounds of the model *)

\* Resolution of scores: one point is ScoreScale units.
ScoreScale == 2

\* Longest sequence of processFrame calls explored by Spec.
MaxTicks == 3

\* Timestamps (ms) a tick may carry; ticks carry strictly increasing ones.
Timestamps == {0, 1000, 2000, 2100, 3000}

\* SpecStore: the metrics one session accepts and the nudges it records.
MaxSeries == 2

MaxNudges == 1

\* SpecStore: the session ids uuidv4() returns, in this order, and the
\* instants (ms) the wall clock shows; Date.now() is positive.
SessionIds == {1}

\* Sessions started in a run that starts a session more than once.
MaxSessions == 2

ClockInstants == {1000, 62000}

\* SpecAgg: the longest series stopSession is applied to.
MaxAggLen == 8

\* SpecPage: the interval callbacks one page starts.
MaxFired == 2

\* SpecSync: the longest timeSeries a request carries.
MaxSyncLen == 6

\* Interval callbacks of a run in which each ends before the next starts.
MaxSerialTicks == 3

\* Points of the longest series written to and read back from storage.
MaxPersistLen == 11

\* Ticks of a run that a second engine repeats.
MaxTwinTicks == 2

\* processFrame calls of a run with reset calls in between.
MaxResetTicks == 2

\* Ticks of a run with getAverageScore and getTrendDirection calls.
MaxQueryTicks == 6

\* Frames an engine has processed when a long run starts, and frames it has
\* processed when the run ends.
HistoryPrefix == 28

MaxHistoryTicks == 32

\* SpecConfig: the processFrame calls made between configuration changes.
MaxConfigTicks == 2

----------------------------------------------------------------------------
(* Values *)

EngagementState == {"engaged", "distracted", "sleepy", "away"}

\* An optional number (a field of StateHistory): {} is undefined, {t} is t.
Unset == {}

\* JavaScript truthiness of an optional number: undefined and 0 are falsy.
Truthy(opt) == opt # Unset /\ opt # {0}

ValueOf(opt) == CHOOSE t \in opt : TRUE

Pts(n) == n * ScoreScale

\* Math.round of a score held in units of 1/ScoreScale: floor(x + 1/2).
MathRound(x) == (2 * x + ScoreScale) \div (2 * ScoreScale)

Max(a, b) == IF a >= b THEN a ELSE b

Min(a, b) == IF a <= b THEN a ELSE b

maxHistoryLength == 30

AwayAfterMs == 2000

EarTired == 15

MouthWide == 80

\* The configuration the constructor installs when given none.
DefaultConfig ==
    [ eyeClosedDuration |-> 1000,
      yawnDuration      |-> 1000,
      lookAwayDuration  |-> 1000,
      baselineScore     |-> Pts(70),
      stateWeights      |-> [ engaged    |-> Pts(10),
                              distracted |-> Pts(0 - 15),
                              sleepy     |-> Pts(0 - 25),
                              away       |-> Pts(0 - 20) ] ]

\* The configuration the study page constructs the engine with.
StudyConfig == [DefaultConfig EXCEPT !.lookAwayDuration = 1500]

\* A configuration with a high baseline, weights that are all bonuses (one of
\* them fractional) and a longer eyes-closed threshold.
HighConfig ==
    [DefaultConfig EXCEPT !.eyeClosedDuration = 1500,
                          !.baselineScore = Pts(150),
                          !.stateWeights = [ engaged    |-> Pts(40),
                                             distracted |-> Pts(15),
                                             sleepy     |-> Pts(0) + 1,
                                             away       |-> Pts(20) ]]

\* A configuration with a low, fractional baseline.
LowConfig == [DefaultConfig EXCEPT !.baselineScore = Pts(10) + 1]

Configs == {DefaultConfig, StudyConfig, HighConfig, LowConfig}

NegativeExpressions == {"sad", "angry", "fearful", "disgusted", "surprised"}

----------------------------------------------------------------------------
(* EngagementEngine *)

\* isNegativeExpression with 'surprised' left out of the list.
isNegativeExpressionButSurprised(expression) ==
    expression \in NegativeExpressions \ {"surprised"}

isNegativeExpression(expression) == expression \in NegativeExpressions

\* One timer of updateStateHistory: armed on the first tick of the condition
\* (the test is !start, so a start of 0 counts as not armed), cleared when the
\* condition is false.
armTimer(start, condition, timestamp) ==
    IF condition
    THEN IF ~Truthy(start) THEN {timestamp} ELSE start
    ELSE Unset

updateStateHistory(hist, cvMetrics, timestamp) ==
    [ eyesClosedStart |-> armTimer(hist.eyesClosedStart, cvMetrics.eyesClosed, timestamp),
      yawnStart       |-> armTimer(hist.yawnStart, cvMetrics.yawning, timestamp),
      lookAwayStart   |-> armTimer(hist.lookAwayStart, cvMetrics.lookingAway, timestamp),
      faceAbsentStart |-> armTimer(hist.faceAbsentStart, ~cvMetrics.facePresent, timestamp) ]

\* durationSince with the start forgotten in the difference.
durationSinceEpoch(start, timestamp) ==
    IF Truthy(start) THEN timestamp ELSE 0

\* start ? (timestamp - start) : 0, in milliseconds.
durationSince(start, timestamp) ==
    IF Truthy(start) THEN timestamp - ValueOf(start) ELSE 0

determineEngagementState(cfg, hist, cvMetrics, handMetrics, timestamp) ==
    IF ~cvMetrics.facePresent
       /\ durationSince(hist.faceAbsentStart, timestamp) >= AwayAfterMs
    THEN "away"
    ELSE IF \/ durationSince(hist.eyesClosedStart, timestamp) >= cfg.eyeClosedDuration
            \/ durationSince(hist.yawnStart, timestamp) >= cfg.yawnDuration
    THEN "sleepy"
    ELSE IF \/ durationSince(hist.lookAwayStart, timestamp) >= cfg.lookAwayDuration
            \/ handMetrics.handsFidgeting
            \/ handMetrics.handOverFace
            \/ isNegativeExpression(cvMetrics.expressionLabel)
    THEN "distracted"
    ELSE IF cvMetrics.facePresent /\ ~cvMetrics.lookingAway /\ ~cvMetrics.eyesClosed
    THEN "engaged"
    ELSE "distracted"

\* rawScore with the eye-aspect-ratio penalty skipped on a frame whose state
\* weight already penalises sleepiness.
rawScoreNoCompound(cfg, state, cvMetrics, handMetrics) ==
    LET s0 == cfg.baselineScore
        s1 == s0 + cfg.stateWeights[state]
        s2 == IF cvMetrics.facePresent THEN s1 + Pts(5) ELSE s1
        s3 == IF cvMetrics.expressionLabel = "happy" \/ cvMetrics.expressionLabel = "neutral"
              THEN s2 + Pts(5) ELSE s2
        s4 == IF handMetrics.handsFidgeting THEN s3 - Pts(10) ELSE s3
        s5 == IF handMetrics.handOverFace THEN s4 - Pts(15) ELSE s4
        s6 == IF cvMetrics.eyeAspectRatio < EarTired /\ state # "sleepy"
              THEN s5 - Pts(20) ELSE s5
        s7 == IF cvMetrics.mouthOpenRatio > MouthWide THEN s6 - Pts(15) ELSE s6
    IN  s7

\* The running sum of calculateEngagementScore before rounding and clamping.
rawScore(cfg, state, cvMetrics, handMetrics) ==
    LET s0 == cfg.baselineScore
        s1 == s0 + cfg.stateWeights[state]
        s2 == IF cvMetrics.facePresent THEN s1 + Pts(5) ELSE s1
        s3 == IF cvMetrics.expressionLabel = "happy" \/ cvMetrics.expressionLabel = "neutral"
              THEN s2 + Pts(5) ELSE s2
        s4 == IF handMetrics.handsFidgeting THEN s3 - Pts(10) ELSE s3
        s5 == IF handMetrics.handOverFace THEN s4 - Pts(15) ELSE s4
        s6 == IF cvMetrics.eyeAspectRatio < EarTired THEN s5 - Pts(20) ELSE s5
        s7 == IF cvMetrics.mouthOpenRatio > MouthWide THEN s6 - Pts(15) ELSE s6
    IN  s7

\* calculateEngagementScore without the clamp.
calculateEngagementScoreUnclamped(cfg, state, cvMetrics, handMetrics) ==
    MathRound(rawScore(cfg, state, cvMetrics, handMetrics))

\* The returned score, in whole points.
calculateEngagementScore(cfg, state, cvMetrics, handMetrics) ==
    Max(0, Min(100, MathRound(rawScore(cfg, state, cvMetrics, handMetrics))))

\* A confidence that leaves the expression label out.
calculateConfidenceNoLabel(cvMetrics, handMetrics) ==
    LET c0 == 5
        c1 == IF cvMetrics.facePresent THEN c0 + 3 ELSE c0
        c2 == IF cvMetrics.eyeAspectRatio > 0 THEN c1 + 1 ELSE c1
    IN  Max(0, Min(10, c2))

\* In tenths.
calculateConfidence(cvMetrics, handMetrics) ==
    LET c0 == 5
        c1 == IF cvMetrics.facePresent THEN c0 + 3 ELSE c0
        c2 == IF cvMetrics.eyeAspectRatio > 0 THEN c1 + 1 ELSE c1
        c3 == IF cvMetrics.expressionLabel # "unknown" THEN c2 + 1 ELSE c2
    IN  Max(0, Min(10, c3))

\* A history that drops the pushed score when it is full.
pushScoreKeepOldest(history, score) ==
    IF Len(history) >= maxHistoryLength THEN history ELSE Append(history, score)

\* scoreHistory.push(score), then shift() when longer than maxHistoryLength.
pushScore(history, score) ==
    LET pushed == Append(history, score)
    IN  IF Len(pushed) > maxHistoryLength THEN Tail(pushed) ELSE pushed

\* What one processFrame call computes from the configuration and the timers:
\* the timers it leaves and the EngagementMetrics it returns.
frameResult(cfg, history, cvMetrics, handMetrics, timestamp) ==
    LET hist       == updateStateHistory(history, cvMetrics, timestamp)
        state      == determineEngagementState(cfg, hist, cvMetrics, handMetrics, timestamp)
        score      == calculateEngagementScore(cfg, state, cvMetrics, handMetrics)
        confidence == calculateConfidence(cvMetrics, handMetrics)
    IN  [ hist    |-> hist,
          metrics |-> [ state |-> state, score |-> score,
                        confidence |-> confidence, timestamp |-> timestamp ] ]

\* { ...base, ...partial }: the fields partial has replace those of base.
spread(base, partial) ==
    [ f \in DOMAIN base |-> IF f \in DOMAIN partial THEN partial[f] ELSE base[f] ]

\* new EngagementEngine(partial): the configuration it starts with.
constructorConfig(partial) == spread(DefaultConfig, partial)

\* updateConfig(newConfig).
updateConfig(newConfig) ==
    /\ config' = spread(config, newConfig)
    /\ UNCHANGED <<stateHistory, scoreHistory, log, answer>>

NoAnswer == [ op |-> "none" ]

RECURSIVE sumOf(_, _)
\* scores.reduce((sum, s) => sum + s, 0), from the i-th score on.
sumOf(scores, i) ==
    IF i > Len(scores) THEN 0 ELSE scores[i] + sumOf(scores, i + 1)

\* history.slice(-windowSize) for 0 < windowSize <= history.length.
sliceLast(history, windowSize) ==
    SubSeq(history, Len(history) - windowSize + 1, Len(history))

\* An average over the whole history, whatever the window.
averageScoreOfAll(cfg, history, windowSeconds) ==
    IF Len(history) = 0
    THEN [ num |-> cfg.baselineScore, den |-> ScoreScale ]
    ELSE [ num |-> sumOf(history, 1), den |-> Len(history) ]

\* The number getAverageScore(windowSeconds) returns, as the quotient
\* num / den of two integers: baselineScore for an empty window, else the sum
\* of the window over its length.
averageScore(cfg, history, windowSeconds) ==
    LET windowSize == Min(windowSeconds, Len(history))
    IN  IF windowSize = 0
        THEN [ num |-> cfg.baselineScore, den |-> ScoreScale ]
        ELSE [ num |-> sumOf(sliceLast(history, windowSize), 1), den |-> windowSize ]

RECURSIVE Pow2(_)
Pow2(k) == IF k = 0 THEN 1 ELSE 2 * Pow2(k - 1)

RECURSIVE Pow2Mod(_, _)
\* 2^k modulo n.
Pow2Mod(k, n) ==
    IF k = 0 THEN 1 % n
    ELSE LET h == Pow2Mod(k \div 2, n)
         IN  (h * h * (IF k % 2 = 1 THEN 2 ELSE 1)) % n

\* The binary exponent of the quotient sum / n of a positive sum: the e with
\* 2^e <= sum / n < 2^(e + 1).
exponentOf(sum, n) ==
    CHOOSE e \in (0 - 12)..12 :
        IF e >= 0
        THEN n * Pow2(e) <= sum /\ sum < n * Pow2(e + 1)
        ELSE n <= sum * Pow2(0 - e) /\ sum * Pow2(0 - e - 1) < n

\* sum / n in double arithmetic: the quotient rounded to 53 significant
\* bits.  err is the rounding error in units of 1 / (n * 2^(52 - exp)): the
\* remainder r of sum * 2^(52 - exp) by n is dropped when below n / 2, filled
\* up to n when above (n / 2 itself is never met).
doubleQuotient(sum, n) ==
    IF sum = 0 THEN [ exp |-> 0, err |-> 0 ]
    ELSE LET e == exponentOf(sum, n)
             r == ((sum % n) * Pow2Mod(52 - e, n)) % n
         IN  [ exp |-> e, err |-> IF 2 * r < n THEN 0 - r ELSE n - r ]

\* The trend as the code computes it, in doubles: diff = secondAvg - firstAvg
\* with both averages rounded.  Where the exact difference is not 5 or -5
\* the rounding cannot change the comparison; where it is, diff > 5 exactly
\* when the rounding errors differ by more than half a unit in the last
\* place of 5 (2^-51), and likewise for -5.  excess is that difference of
\* the errors in units of 2^-59 / (firstLen * secondLen).
trendOf(firstSum, firstLen, secondSum, secondLen) ==
    LET cross  == secondSum * firstLen - firstSum * secondLen
        first  == doubleQuotient(firstSum, firstLen)
        second == doubleQuotient(secondSum, secondLen)
        excess == second.err * Pow2(second.exp + 7) * firstLen
                  - first.err * Pow2(first.exp + 7) * secondLen
        half   == Pow2(8) * firstLen * secondLen
    IN  IF cross > 5 * firstLen * secondLen THEN "improving"
        ELSE IF cross < 0 - 5 * firstLen * secondLen THEN "declining"
        ELSE IF cross = 5 * firstLen * secondLen /\ excess > half THEN "improving"
        ELSE IF cross = 0 - 5 * firstLen * secondLen /\ excess < 0 - half THEN "declining"
        ELSE "stable"

\* What getTrendDirection(windowSeconds) returns.
trendDirection(history, windowSeconds) ==
    LET windowSize   == Min(windowSeconds, Len(history))
        recentScores == sliceLast(history, windowSize)
        half         == windowSize \div 2
        firstHalf    == SubSeq(recentScores, 1, half)
        secondHalf   == SubSeq(recentScores, half + 1, windowSize)
    IN  IF windowSize < 5 THEN "stable"
        ELSE trendOf(sumOf(firstHalf, 1), Len(firstHalf),
                     sumOf(secondHalf, 1), Len(secondHalf))

\* getAverageScore(windowSeconds): the whole call.
getAverageScore(windowSeconds) ==
    /\ answer' = [ op |-> "getAverageScore", windowSeconds |-> windowSeconds,
                   result |-> averageScore(config, scoreHistory, windowSeconds) ]
    /\ UNCHANGED <<config, stateHistory, scoreHistory, log>>

\* getTrendDirection(windowSeconds): the whole call.
getTrendDirection(windowSeconds) ==
    /\ answer' = [ op |-> "getTrendDirection", windowSeconds |-> windowSeconds,
                   result |-> trendDirection(scoreHistory, windowSeconds) ]
    /\ UNCHANGED <<config, stateHistory, scoreHistory, log>>

\* A reset that clears the timers and keeps the scores.
resetTimers ==
    /\ stateHistory' = [ eyesClosedStart |-> Unset, yawnStart |-> Unset,
                         lookAwayStart |-> Unset, faceAbsentStart |-> Unset ]
    /\ scoreHistory' = scoreHistory
    /\ answer' = [ op |-> "reset", at |-> Len(log) ]
    /\ UNCHANGED <<config, log>>

\* reset(): the timers and the score history as in a new engine.  answer
\* keeps the number of processFrame calls made before it.
reset ==
    /\ stateHistory' = [ eyesClosedStart |-> Unset, yawnStart |-> Unset,
                         lookAwayStart |-> Unset, faceAbsentStart |-> Unset ]
    /\ scoreHistory' = <<>>
    /\ answer' = [ op |-> "reset", at |-> Len(log) ]
    /\ UNCHANGED <<config, log>>

\* The record the log keeps of a call.
logEntry(cvMetrics, handMetrics, timestamp, metrics) ==
    [ cv |-> cvMetrics, hand |-> handMetrics, timestamp |-> timestamp, metrics |-> metrics ]

\* A processFrame that reads the wall clock instead of its timestamp.
processFrameAtNow(cvMetrics, handMetrics, timestamp) ==
    LET r == frameResult(config, stateHistory, cvMetrics, handMetrics, now)
    IN  /\ stateHistory' = r.hist
        /\ scoreHistory' = pushScore(scoreHistory, r.metrics.score)
        /\ log' = Append(log, logEntry(cvMetrics, handMetrics, timestamp, r.metrics))
        /\ UNCHANGED <<config, answer>>

\* processFrame(cvMetrics, handMetrics, timestamp): the whole call.
processFrame(cvMetrics, handMetrics, timestamp) ==
    LET r == frameResult(config, stateHistory, cvMetrics, handMetrics, timestamp)
    IN  /\ stateHistory' = r.hist
        /\ scoreHistory' = pushScore(scoreHistory, r.metrics.score)
        /\ log' = Append(log, logEntry(cvMetrics, handMetrics, timestamp, r.metrics))
        /\ UNCHANGED <<config, answer>>

\* The engine one processFrame call after the state engine: its timers, its
\* score history and the log of its calls.
engineStep(cfg, engine, call) ==
    LET r == frameResult(cfg, engine.hist, call.cv, call.hand, call.timestamp)
    IN  [ hist   |-> r.hist,
          scores |-> pushScore(engine.scores, r.metrics.score),
          log    |-> Append(engine.log,
                            logEntry(call.cv, call.hand, call.timestamp, r.metrics)) ]

RECURSIVE engineAfter(_, _, _)
\* The engine after the first n of the given processFrame calls on a new
\* engine with configuration cfg.
engineAfter(cfg, calls, n) ==
    IF n = 0
    THEN [ hist   |-> [ eyesClosedStart |-> Unset, yawnStart |-> Unset,
                        lookAwayStart |-> Unset, faceAbsentStart |-> Unset ],
           scores |-> <<>>,
           log    |-> <<>> ]
    ELSE CHOOSE after \in { engineStep(cfg, before, calls[n])
                              : before \in { engineAfter(cfg, calls, n - 1) } } : TRUE

----------------------------------------------------------------------------
(* useSessionStore *)

NoSession == [ none |-> TRUE ]

Idle == [ pc |-> "idle" ]

NoCall == [ op |-> "none" ]

NUDGE_COOLDOWN_MS == 60000

\* Math.round(n / d) for n >= 0, d > 0.
RoundDiv(n, d) == (2 * n + d) \div (2 * d)

\* The number of runs of consecutive points in state st.
countRuns(series, st) ==
    Cardinality({ i \in 1..Len(series) :
                    series[i].state = st /\ (i = 1 \/ series[i - 1].state # st) })

\* timeSeries.filter(p => p.state === st).length.
countState(series, st) == Cardinality({ i \in 1..Len(series) : series[i].state = st })

\* Math.round((count / total) * 100) in double arithmetic, 0 <= count <=
\* total.  The product differs from the exact percentage by less than any
\* distance to a rounding boundary unless the exact percentage is k + 0.5.
\* There the quotient's rounding error decides: with no error or a positive
\* one the product is k + 0.5 or above and rounds to k + 1; with a negative
\* error of more than half the spacing of the doubles below k + 0.5 the
\* product is the double below k + 0.5 and rounds to k.  span is the binary
\* exponent of those doubles.
percentOf(count, total) ==
    LET exact == RoundDiv(count * 100, total)
        tie   == (200 * count) % total = 0 /\ ((200 * count) \div total) % 2 = 1
    IN  IF ~tie THEN exact
        ELSE LET q    == doubleQuotient(count, total)
                 top  == exponentOf(100 * count, total)
                 span == IF 200 * count = total THEN top - 1 ELSE top
             IN  IF q.err < 0 /\ 200 * (0 - q.err) > total * Pow2(span - q.exp)
                 THEN exact - 1
                 ELSE exact

\* getEngagementStats(): the percentage of points in each state, each rounded.
getEngagementStats(session) ==
    IF session = NoSession \/ Len(session.timeSeries) = 0
    THEN [ engaged |-> 0, distracted |-> 0, sleepy |-> 0, away |-> 0 ]
    ELSE LET total == Len(session.timeSeries)
         IN  [ st \in EngagementState |->
                   percentOf(countState(session.timeSeries, st), total) ]

RECURSIVE episodesNoFallingEdge(_, _, _, _)
\* The episode count without the reset of inDistractedEpisode on a point that
\* is not distracting.
episodesNoFallingEdge(series, i, inDistractedEpisode, distractedEpisodes) ==
    IF i > Len(series) THEN distractedEpisodes
    ELSE LET isDistracted == series[i].state = "distracted" \/ series[i].state = "sleepy"
         IN  IF isDistracted /\ ~inDistractedEpisode
             THEN episodesNoFallingEdge(series, i + 1, TRUE, distractedEpisodes + 1)
             ELSE episodesNoFallingEdge(series, i + 1, inDistractedEpisode, distractedEpisodes)

RECURSIVE countEpisodes(_, _, _, _)
\* The forEach of stopSession over timeSeries from point i on, with the values
\* its two locals have before point i.
countEpisodes(series, i, inDistractedEpisode, distractedEpisodes) ==
    IF i > Len(series) THEN distractedEpisodes
    ELSE LET isDistracted == series[i].state = "distracted" \/ series[i].state = "sleepy"
         IN  IF isDistracted /\ ~inDistractedEpisode
             THEN countEpisodes(series, i + 1, TRUE, distractedEpisodes + 1)
             ELSE IF ~isDistracted
             THEN countEpisodes(series, i + 1, FALSE, distractedEpisodes)
             ELSE countEpisodes(series, i + 1, inDistractedEpisode, distractedEpisodes)

\* The Session record stopSession builds for a session at time endedAt.
sessionRecord(session, endedAt) ==
    LET duration == (endedAt - session.startedAt) \div 1000
        stats    == getEngagementStats(session)
    IN  [ id                 |-> session.id,
          userId             |-> session.userId,
          startedAt          |-> session.startedAt,
          endedAt            |-> endedAt,
          durationSec        |-> duration,
          engagedSec         |-> RoundDiv(stats.engaged * duration, 100),
          distractedSec      |-> RoundDiv(stats.distracted * duration, 100),
          awaySec            |-> RoundDiv(stats.away * duration, 100),
          sleepySec          |-> RoundDiv(stats.sleepy * duration, 100),
          yawnCount          |-> countState(session.timeSeries, "sleepy"),
          distractedEpisodes |-> countEpisodes(session.timeSeries, 1, FALSE, 0),
          version            |-> 1 ]

\* The TimeSeriesPoint records stopSession builds: one per point, tSec its
\* 0-based index; the id `${sessionId}-${index}` is the pair.
timeSeriesPoints(session) ==
    [ i \in 1..Len(session.timeSeries) |->
          [ id        |-> <<session.id, i - 1>>,
            sessionId |-> session.id,
            tSec      |-> i - 1,
            state     |-> session.timeSeries[i].state,
            score     |-> session.timeSeries[i].score ] ]

\* store.put(value): insert, or replace the record with the same key.
put(store, value) == { r \in store : r.id # value.id } \cup {value}

RECURSIVE putAll(_, _, _)
putAll(store, points, i) ==
    IF i > Len(points) THEN store ELSE putAll(put(store, points[i]), points, i + 1)

\* The decimal digits of an index below 100, as the template string of a
\* point's id writes them.
digits(n) == IF n < 10 THEN <<n>> ELSE <<n \div 10, n % 10>>

\* The order of two keys `${sessionId}-${index}` of one session in the
\* object store: that of their strings.
keyLess(a, b) ==
    LET da == digits(a[2])
        db == digits(b[2])
    IN  \/ da[1] < db[1]
        \/ da[1] = db[1] /\ Len(da) < Len(db)
        \/ da[1] = db[1] /\ Len(da) = 2 /\ Len(db) = 2 /\ da[2] < db[2]

\* getAllFromIndex('timeseries', 'by-session', sessionId): the points of the
\* session in the order of their keys.
getAllFromIndex(store, sessionId) ==
    LET found == { p \in store : p.sessionId = sessionId }
    IN  [ i \in 1..Cardinality(found) |->
            CHOOSE p \in found :
                Cardinality({ q \in found : keyLess(q.id, p.id) }) = i - 1 ]

\* points.sort((a, b) => a.tSec - b.tSec): a stable sort.
sortByTSec(points) ==
    LET rank(j) == 1 + Cardinality({ k \in 1..Len(points) :
                          \/ points[k].tSec < points[j].tSec
                          \/ points[k].tSec = points[j].tSec /\ k < j })
    IN  [ i \in 1..Len(points) |-> points[CHOOSE j \in 1..Len(points) : rank(j) = i] ]

\* A read that returns the points as the index yields them.
getTimeSeriesUnsorted(store, sessionId) == getAllFromIndex(store, sessionId)

\* getTimeSeriesBySession(sessionId).
getTimeSeriesBySession(store, sessionId) == sortByTSec(getAllFromIndex(store, sessionId))

startSession(userId) ==
    /\ currentSession' =
           [ id            |-> nextId,
             userId        |-> userId,
             startedAt     |-> now,
             endedAt       |-> Unset,
             isActive      |-> TRUE,
             isPaused      |-> FALSE,
             duration      |-> 0,
             timeSeries    |-> <<>>,
             lastNudgeTime |-> Unset,
             nudgeCount    |-> 0 ]
    /\ nextId' = nextId + 1
    /\ lastCall' = [ op |-> "startSession", outcome |-> "returned" ]
    /\ UNCHANGED <<now, stop, dbSessions, dbTimeSeries>>
    /\ UNCHANGED nudgedAt

pauseSession ==
    /\ currentSession' =
           IF currentSession = NoSession \/ ~currentSession.isActive
           THEN currentSession
           ELSE [currentSession EXCEPT !.isPaused = TRUE]
    /\ lastCall' = [ op |-> "pauseSession", outcome |-> "returned" ]
    /\ UNCHANGED <<now, nextId, stop, dbSessions, dbTimeSeries>>
    /\ UNCHANGED nudgedAt

resumeSession ==
    /\ currentSession' =
           IF currentSession = NoSession \/ ~currentSession.isActive
           THEN currentSession
           ELSE [currentSession EXCEPT !.isPaused = FALSE]
    /\ lastCall' = [ op |-> "resumeSession", outcome |-> "returned" ]
    /\ UNCHANGED <<now, nextId, stop, dbSessions, dbTimeSeries>>
    /\ UNCHANGED nudgedAt

\* addMetrics that does not look at isPaused.
addMetricsWhilePaused(metrics) ==
    /\ currentSession' =
           IF currentSession = NoSession \/ ~currentSession.isActive
           THEN currentSession
           ELSE LET updatedTimeSeries == Append(currentSession.timeSeries, metrics)
                IN  [currentSession EXCEPT !.timeSeries = updatedTimeSeries,
                                           !.duration = Len(updatedTimeSeries)]
    /\ lastCall' = [ op |-> "addMetrics", outcome |-> "returned", metrics |-> metrics ]
    /\ UNCHANGED <<now, nextId, stop, dbSessions, dbTimeSeries>>
    /\ UNCHANGED nudgedAt

\* addMetrics that puts the metric in front of the series.
addMetricsFirst(metrics) ==
    /\ currentSession' =
           IF currentSession = NoSession \/ ~currentSession.isActive \/ currentSession.isPaused
           THEN currentSession
           ELSE LET updatedTimeSeries == <<metrics>> \o currentSession.timeSeries
                IN  [currentSession EXCEPT !.timeSeries = updatedTimeSeries,
                                           !.duration = Len(updatedTimeSeries)]
    /\ lastCall' = [ op |-> "addMetrics", outcome |-> "returned", metrics |-> metrics ]
    /\ UNCHANGED <<now, nextId, stop, dbSessions, dbTimeSeries>>
    /\ UNCHANGED nudgedAt

addMetrics(metrics) ==
    /\ currentSession' =
           IF currentSession = NoSession \/ ~currentSession.isActive \/ currentSession.isPaused
           THEN currentSession
           ELSE LET updatedTimeSeries == Append(currentSession.timeSeries, metrics)
                IN  [currentSession EXCEPT !.timeSeries = updatedTimeSeries,
                                           !.duration = Len(updatedTimeSeries)]
    /\ lastCall' = [ op |-> "addMetrics", outcome |-> "returned", metrics |-> metrics ]
    /\ UNCHANGED <<now, nextId, stop, dbSessions, dbTimeSeries>>
    /\ UNCHANGED nudgedAt

recordNudge ==
    /\ currentSession' =
           IF currentSession = NoSession
           THEN currentSession
           ELSE [currentSession EXCEPT !.lastNudgeTime = {now},
                                       !.nudgeCount = currentSession.nudgeCount + 1]
    /\ nudgedAt' = IF currentSession = NoSession THEN nudgedAt ELSE {now}
    /\ lastCall' = [ op |-> "recordNudge", outcome |-> "returned" ]
    /\ UNCHANGED <<now, nextId, stop, dbSessions, dbTimeSeries>>

\* getEngagementStats(): the whole call; it sets nothing.
getEngagementStatsCall ==
    /\ lastCall' = [ op |-> "getEngagementStats", outcome |-> "returned",
                     stats |-> getEngagementStats(currentSession) ]
    /\ UNCHANGED <<currentSession, now, nextId, stop, dbSessions, dbTimeSeries>>
    /\ UNCHANGED nudgedAt

\* shouldShowNudge with the cooldown over only after more than
\* NUDGE_COOLDOWN_MS.
shouldShowNudgeStrict(session, currentTime) ==
    IF session = NoSession \/ ~Truthy(session.lastNudgeTime)
    THEN TRUE
    ELSE currentTime - ValueOf(session.lastNudgeTime) > NUDGE_COOLDOWN_MS

shouldShowNudge(session, currentTime) ==
    IF session = NoSession \/ ~Truthy(session.lastNudgeTime)
    THEN TRUE
    ELSE currentTime - ValueOf(session.lastNudgeTime) >= NUDGE_COOLDOWN_MS

\* stopSession, from the call to its first await: throws without a session;
\* otherwise builds the record and the points from the session it read and
\* suspends on saveSession.
stopSessionCall ==
    /\ stop = Idle
    /\ IF currentSession = NoSession
       THEN /\ lastCall' = [ op |-> "stopSession",  outcome |-> "Error: No active session" ]
            /\ UNCHANGED stop
       ELSE /\ stop' = [ pc      |-> "saveSession",
                         session |-> currentSession,
                         endedAt |-> now,
                         record  |-> sessionRecord(currentSession, now),
                         points  |-> timeSeriesPoints(currentSession) ]
            /\ lastCall' = [ op |-> "stopSession",  outcome |-> "pending" ]
    /\ UNCHANGED <<currentSession, now, nextId, dbSessions, dbTimeSeries>>
    /\ UNCHANGED nudgedAt

\* saveSession resolves: the record is in the store, and stopSession goes on
\* to suspend on saveTimeSeries.
stopSessionSaved ==
    /\ stop.pc = "saveSession"
    /\ dbSessions' = put(dbSessions, stop.record)
    /\ stop' = [stop EXCEPT !.pc = "saveTimeSeries"]
    /\ UNCHANGED <<currentSession, now, nextId, dbTimeSeries, lastCall>>
    /\ UNCHANGED nudgedAt

\* saveTimeSeries resolves: the points are in the store, and stopSession
\* sets the session it read at the call, ended, and returns its id.
stopSessionFinish ==
    /\ stop.pc = "saveTimeSeries"
    /\ dbTimeSeries' = putAll(dbTimeSeries, stop.points, 1)
    /\ currentSession' = [stop.session EXCEPT !.endedAt = {stop.endedAt},
                                              !.isActive = FALSE,
                                              !.duration = stop.record.durationSec]
    /\ lastCall' = [ op |-> "stopSession", outcome |-> "returned", record |-> stop.record,
                     points |-> stop.points ]
    /\ stop' = Idle
    /\ UNCHANGED <<now, nextId, dbSessions>>
    /\ UNCHANGED nudgedAt

\* saveSession or saveTimeSeries rejects: stopSession rejects with the error
\* and sets nothing.
stopSessionRejected ==
    /\ stop # Idle
    /\ lastCall' = [ op |-> "stopSession", outcome |-> "Error: storage", record |-> stop.record,
                     points |-> stop.points ]
    /\ stop' = Idle
    /\ UNCHANGED <<currentSession, now, nextId, dbSessions, dbTimeSeries>>
    /\ UNCHANGED nudgedAt

----------------------------------------------------------------------------
(* Inputs *)

ExpressionLabels == {"happy", "neutral", "sad", "unknown"}

\* Hand metrics when hand detection is disabled or sees nothing.
NoHands == [ handsFidgeting |-> FALSE, handOverFace |-> FALSE ]

HandInputs == [ handsFidgeting : BOOLEAN, handOverFace : BOOLEAN ]

\* Every combination of the flags and labels processFrame reads, with ratios
\* on both sides of each threshold the score and the confidence test.
CvInputs ==
    [ facePresent     : BOOLEAN,
      eyesClosed      : BOOLEAN,
      yawning         : BOOLEAN,
      lookingAway     : BOOLEAN,
      eyeAspectRatio  : {0, EarTired - 1, EarTired},
      mouthOpenRatio  : {MouthWide, MouthWide + 1},
      expressionLabel : ExpressionLabels ]

\* The samples of the sequence specification: every combination of the four
\* conditions the timers follow, with the ratios and the label a detector
\* reports along with them.
SeqCvInputs ==
    { [ facePresent     |-> f,
        eyesClosed      |-> e,
        yawning         |-> y,
        lookingAway     |-> l,
        eyeAspectRatio  |-> IF e THEN EarTired - 1 ELSE 2 * EarTired,
        mouthOpenRatio  |-> IF y THEN MouthWide + 1 ELSE MouthWide \div 4,
        expressionLabel |-> IF f THEN "neutral" ELSE "unknown" ]
      : f \in BOOLEAN, e \in BOOLEAN, y \in BOOLEAN, l \in BOOLEAN }

Users == {"u1"}

\* The EngagementMetrics handed to addMetrics: one of each state.
MetricsInputs ==
    { [ state |-> "engaged",    score |-> 90, confidence |-> 10, timestamp |-> 1000 ],
      [ state |-> "distracted", score |-> 60, confidence |-> 10, timestamp |-> 1000 ],
      [ state |-> "sleepy",     score |-> 30, confidence |-> 10, timestamp |-> 1000 ],
      [ state |-> "away",       score |-> 50, confidence |-> 5,  timestamp |-> 1000 ] }

LastTimestamp == IF log = <<>> THEN 0 - 1 ELSE log[Len(log)].timestamp

----------------------------------------------------------------------------
(* Study: the page that drives the engine and the store.  The video element *)
(* and the engine are ready, notifications are enabled and hand detection   *)
(* is disabled, so handMetrics keeps its default.                           *)

\* extractMetrics(null): the sample built when detectFace found no face or
\* caught an error of the detector and returned null.
NoFaceSample ==
    [ facePresent     |-> FALSE,
      eyesClosed      |-> FALSE,
      yawning         |-> FALSE,
      lookingAway     |-> TRUE,
      eyeAspectRatio  |-> 0,
      mouthOpenRatio  |-> 0,
      expressionLabel |-> "unknown" ]

\* The samples detectFace and extractMetrics produce: an attentive face, and
\* the sample of a null detection.
PageSamples ==
    { cv \in SeqCvInputs :
        cv.facePresent /\ ~cv.eyesClosed /\ ~cv.yawning /\ ~cv.lookingAway }
    \cup { NoFaceSample }

\* The effect on currentSession.isActive and isPaused, run when a store call
\* has changed them: stopProcessing, then startProcessing if the session is
\* active and not paused.  processingIntervalRef holds an interval exactly
\* when startProcessing ran last.
processingEffect ==
    timer' = /\ currentSession' # NoSession
             /\ currentSession'.isActive
             /\ ~currentSession'.isPaused

\* An interval callback starts: it calls detectFace on the current frame and
\* suspends on the await.
intervalCallback ==
    /\ timer
    /\ \E cv \in PageSamples :
          inflight' = inflight \cup
              { [ n |-> fired + 1, pc |-> "detectFace", cv |-> cv, state |-> "" ] }
    /\ fired' = fired + 1
    /\ UNCHANGED <<timer, order, lastNudgeState>>

\* detectFace resolves for a suspended callback: processFrame, addMetrics,
\* then checkForNudges up to its await of playPing.
detectionResolved(tk) ==
    LET metrics    == frameResult(config, stateHistory, tk.cv, NoHands, now).metrics
        needsNudge == metrics.state \in {"distracted", "sleepy", "away"}
    IN  /\ tk.pc = "detectFace"
        /\ processFrame(tk.cv, NoHands, now)
        /\ order' = Append(order, tk.n)
        /\ addMetrics(metrics)
        /\ IF ~shouldShowNudge(currentSession', now)
           THEN /\ inflight' = inflight \ {tk}
                /\ UNCHANGED lastNudgeState
           ELSE IF needsNudge /\ lastNudgeState # metrics.state
           THEN /\ inflight' = (inflight \ {tk}) \cup
                        { [tk EXCEPT !.pc = "playPing", !.state = metrics.state] }
                /\ UNCHANGED lastNudgeState
           ELSE /\ inflight' = inflight \ {tk}
                /\ lastNudgeState' = metrics.state
        /\ UNCHANGED <<timer, fired>>

\* detectFace rejects (the loader throws 'Face API not initialized'): the
\* catch of the callback logs the error and the callback ends.
detectionFailed(tk) ==
    /\ tk.pc = "detectFace"
    /\ inflight' = inflight \ {tk}
    /\ UNCHANGED <<timer, fired, order, lastNudgeState>>

\* playPing resolves: checkForNudges records the nudge and remembers the
\* state it nudged for.
pingResolved(tk) ==
    /\ tk.pc = "playPing"
    /\ recordNudge
    /\ lastNudgeState' = tk.state
    /\ inflight' = inflight \ {tk}
    /\ UNCHANGED <<timer, fired, order>>

----------------------------------------------------------------------------
(* Spec: sequences of processFrame calls on a new engine *)

EmptyHistory ==
    [ eyesClosedStart |-> Unset, yawnStart |-> Unset,
      lookAwayStart |-> Unset, faceAbsentStart |-> Unset ]

\* The store as created: no session, nothing stored.
StoreInit ==
    /\ currentSession = NoSession
    /\ now = 1000
    /\ nextId = 1
    /\ stop = Idle
    /\ dbSessions = {}
    /\ dbTimeSeries = {}
    /\ lastCall = NoCall
    /\ nudgedAt = Unset

\* The study page before a session: no interval, no callback started.
PageIdle ==
    /\ timer = FALSE
    /\ inflight = {}
    /\ fired = 0
    /\ order = <<>>
    /\ lastNudgeState = ""

\* The API with nothing synced.
SyncIdle ==
    /\ aggregates = {}
    /\ users = {}
    /\ response = [ status |-> 0, repost |-> FALSE ]

Init ==
    /\ config \in {DefaultConfig, StudyConfig}
    /\ stateHistory = EmptyHistory
    /\ scoreHistory = <<>>
    /\ log = <<>>
    /\ answer = NoAnswer
    /\ StoreInit
    /\ PageIdle
    /\ SyncIdle

Tick ==
    /\ Len(log) < MaxTicks
    /\ \E cv \in SeqCvInputs, t \in Timestamps :
          /\ t > LastTimestamp
          /\ processFrame(cv, NoHands, t)
    /\ UNCHANGED <<storeVars, pageVars, syncVars>>

Next == Tick

Spec == Init /\ [][Next]_vars

----------------------------------------------------------------------------
(* SpecFrame: one processFrame call with any sample, on an engine that has  *)
(* processed one frame                                                      *)

FirstTimestamps == {0, 1000}

FrameGaps == {1000, 2000}

\* Every engine one frame after its construction with a configuration of
\* Configs.
InitFrame ==
    /\ config \in Configs
    /\ \E cv \in SeqCvInputs, t \in FirstTimestamps :
          LET r == frameResult(config, EmptyHistory, cv, NoHands, t)
          IN  /\ stateHistory = r.hist
              /\ scoreHistory = <<r.metrics.score>>
              /\ log = <<logEntry(cv, NoHands, t, r.metrics)>>
              /\ answer = NoAnswer
    /\ StoreInit
    /\ PageIdle
    /\ SyncIdle

FrameTick ==
    /\ Len(log) = 1
    /\ \E cv \in CvInputs, hand \in HandInputs, gap \in FrameGaps :
          processFrame(cv, hand, LastTimestamp + gap)
    /\ UNCHANGED <<storeVars, pageVars, syncVars>>

NextFrame == FrameTick

SpecFrame == InitFrame /\ [][NextFrame]_vars

----------------------------------------------------------------------------
(* SpecStore: calls of the session store, the storage writes of stopSession *)
(* resolving or rejecting in between, and the wall clock advancing          *)

EngineIdle ==
    /\ config = DefaultConfig
    /\ stateHistory = EmptyHistory
    /\ scoreHistory = <<>>
    /\ log = <<>>
    /\ answer = NoAnswer

InitStore == EngineIdle /\ StoreInit /\ PageIdle /\ SyncIdle

StartSession ==
    /\ nextId \in SessionIds
    /\ \E u \in Users : startSession(u)
    /\ UNCHANGED <<engineVars, pageVars, syncVars>>

PauseSession == pauseSession /\ UNCHANGED <<engineVars, pageVars, syncVars>>

ResumeSession == resumeSession /\ UNCHANGED <<engineVars, pageVars, syncVars>>

AddMetrics ==
    /\ currentSession # NoSession => Len(currentSession.timeSeries) < MaxSeries
    /\ \E m \in MetricsInputs : addMetrics(m)
    /\ UNCHANGED <<engineVars, pageVars, syncVars>>

RecordNudge ==
    /\ currentSession # NoSession => currentSession.nudgeCount < MaxNudges
    /\ recordNudge
    /\ UNCHANGED <<engineVars, pageVars, syncVars>>

StopSessionCall == stopSessionCall /\ UNCHANGED <<engineVars, pageVars, syncVars>>

StopSessionSaved == stopSessionSaved /\ UNCHANGED <<engineVars, pageVars, syncVars>>

StopSessionFinish == stopSessionFinish /\ UNCHANGED <<engineVars, pageVars, syncVars>>

StopSessionRejected == stopSessionRejected /\ UNCHANGED <<engineVars, pageVars, syncVars>>

AdvanceClock ==
    /\ \E t \in ClockInstants : t > now /\ now' = t
    /\ UNCHANGED <<currentSession, nextId, stop, dbSessions, dbTimeSeries, lastCall,
                   nudgedAt>>
    /\ UNCHANGED <<engineVars, pageVars, syncVars>>

NextStore ==
    \/ StartSession
    \/ PauseSession
    \/ ResumeSession
    \/ AddMetrics
    \/ RecordNudge
    \/ StopSessionCall
    \/ StopSessionSaved
    \/ StopSessionFinish
    \/ StopSessionRejected
    \/ AdvanceClock

SpecStore == InitStore /\ [][NextStore]_vars

----------------------------------------------------------------------------
(* SpecSessions: the store called to start a session more than once         *)

StartAgain ==
    /\ nextId <= MaxSessions
    /\ \E u \in Users : startSession(u)
    /\ UNCHANGED <<engineVars, pageVars, syncVars>>

NextSessions ==
    \/ StartAgain
    \/ PauseSession
    \/ ResumeSession
    \/ AddMetrics
    \/ StopSessionCall
    \/ StopSessionSaved
    \/ StopSessionFinish

SpecSessions == InitStore /\ [][NextSessions]_vars

----------------------------------------------------------------------------
(* SpecAgg: stopSession applied to a session that has accepted any series   *)

AggSeries == UNION { [1..n -> MetricsInputs] : n \in 0..MaxAggLen }

\* A running session that has accepted one metric a second since it started.
InitAgg ==
    /\ EngineIdle
    /\ \E series \in AggSeries :
          /\ currentSession =
                 [ id            |-> 1,
                   userId        |-> "u1",
                   startedAt     |-> 1000,
                   endedAt       |-> Unset,
                   isActive      |-> TRUE,
                   isPaused      |-> FALSE,
                   duration      |-> Len(series),
                   timeSeries    |-> series,
                   lastNudgeTime |-> Unset,
                   nudgeCount    |-> 0 ]
          /\ now = 1000 + 1000 * Len(series)
          /\ lastCall = IF series = <<>>
                        THEN [ op |-> "startSession", outcome |-> "returned" ]
                        ELSE [ op |-> "addMetrics", outcome |-> "returned",
                               metrics |-> series[Len(series)] ]
    /\ nextId = 2
    /\ stop = Idle
    /\ dbSessions = {}
    /\ dbTimeSeries = {}
    /\ nudgedAt = Unset
    /\ PageIdle
    /\ SyncIdle

\* The call builds the record and the points before its first await; the
\* storage writes stay pending.
NextAgg == StopSessionCall

SpecAgg == InitAgg /\ [][NextAgg]_vars

----------------------------------------------------------------------------
(* SpecLong: stopSession applied to sessions that lasted long, given by the  *)
(* number of points in each state and the seconds the session spent paused   *)

\* The number of points a session has in one state.
LongCounts == {0, 1, 5}

\* The seconds a session spent paused, accepting nothing.
PausedSeconds == {0, 600, 792}

MetricsOf(st) == CHOOSE m \in MetricsInputs : m.state = st

\* The series with e engaged points, then d distracted, s sleepy and a away.
BlockSeries(e, d, s, a) ==
    [ i \in 1..(e + d + s + a) |->
          IF i <= e THEN MetricsOf("engaged")
          ELSE IF i <= e + d THEN MetricsOf("distracted")
          ELSE IF i <= e + d + s THEN MetricsOf("sleepy")
          ELSE MetricsOf("away") ]

\* A running session that accepted one metric a second while it was not
\* paused.
InitLong ==
    /\ EngineIdle
    /\ \E e \in LongCounts, d \in LongCounts, s \in LongCounts, a \in LongCounts,
          paused \in PausedSeconds :
          LET series == BlockSeries(e, d, s, a)
          IN  /\ currentSession =
                     [ id            |-> 1,
                       userId        |-> "u1",
                       startedAt     |-> 1000,
                       endedAt       |-> Unset,
                       isActive      |-> TRUE,
                       isPaused      |-> FALSE,
                       duration      |-> Len(series),
                       timeSeries    |-> series,
                       lastNudgeTime |-> Unset,
                       nudgeCount    |-> 0 ]
              /\ now = 1000 + 1000 * (Len(series) + paused)
              /\ lastCall = IF paused > 0
                            THEN [ op |-> "resumeSession", outcome |-> "returned" ]
                            ELSE IF series = <<>>
                            THEN [ op |-> "startSession", outcome |-> "returned" ]
                            ELSE [ op |-> "addMetrics", outcome |-> "returned",
                                   metrics |-> series[Len(series)] ]
    /\ nextId = 2
    /\ stop = Idle
    /\ dbSessions = {}
    /\ dbTimeSeries = {}
    /\ nudgedAt = Unset
    /\ PageIdle
    /\ SyncIdle

NextLong == StopSessionCall

SpecLong == InitLong /\ [][NextLong]_vars

----------------------------------------------------------------------------
(* SpecPage: the study page: the controls, the interval and its callbacks   *)

EnginePage ==
    /\ config = StudyConfig
    /\ stateHistory = EmptyHistory
    /\ scoreHistory = <<>>
    /\ log = <<>>
    /\ answer = NoAnswer

InitPage == EnginePage /\ StoreInit /\ PageIdle /\ SyncIdle

HandleStart ==
    /\ nextId \in SessionIds
    /\ \E u \in Users : startSession(u)
    /\ processingEffect
    /\ UNCHANGED <<inflight, fired, order, lastNudgeState>>
    /\ UNCHANGED <<engineVars, syncVars>>

HandlePause ==
    /\ pauseSession
    /\ processingEffect
    /\ UNCHANGED <<inflight, fired, order, lastNudgeState>>
    /\ UNCHANGED <<engineVars, syncVars>>

HandleResume ==
    /\ resumeSession
    /\ processingEffect
    /\ UNCHANGED <<inflight, fired, order, lastNudgeState>>
    /\ UNCHANGED <<engineVars, syncVars>>

HandleStopFinish ==
    /\ stopSessionFinish
    /\ processingEffect
    /\ UNCHANGED <<inflight, fired, order, lastNudgeState>>
    /\ UNCHANGED <<engineVars, syncVars>>

IntervalCallback ==
    /\ fired < MaxFired
    /\ intervalCallback
    /\ UNCHANGED <<engineVars, storeVars, syncVars>>

DetectionResolved ==
    /\ \E tk \in inflight : detectionResolved(tk)
    /\ UNCHANGED syncVars

DetectionFailed ==
    /\ \E tk \in inflight : detectionFailed(tk)
    /\ UNCHANGED <<engineVars, storeVars, syncVars>>

PingResolved ==
    /\ \E tk \in inflight : pingResolved(tk)
    /\ UNCHANGED <<engineVars, syncVars>>

NextPage ==
    \/ HandleStart
    \/ HandlePause
    \/ HandleResume
    \/ StopSessionCall
    \/ StopSessionSaved
    \/ HandleStopFinish
    \/ IntervalCallback
    \/ DetectionResolved
    \/ DetectionFailed
    \/ PingResolved
    \/ AdvanceClock

SpecPage == InitPage /\ [][NextPage]_vars

----------------------------------------------------------------------------
(* SpecPercent: getEngagementStats on no session and on sessions given by   *)
(* the number of points in each state                                       *)

PercentCounts == {0, 1, 5, 29, 113}

InitPercent ==
    /\ EngineIdle
    /\ \/ /\ currentSession = NoSession
          /\ lastCall = NoCall
          /\ nextId = 1
       \/ /\ \E e \in PercentCounts, d \in PercentCounts,
                s \in PercentCounts, a \in PercentCounts :
                LET series == BlockSeries(e, d, s, a)
                IN  /\ currentSession =
                           [ id            |-> 1,
                             userId        |-> "u1",
                             startedAt     |-> 1000,
                             endedAt       |-> Unset,
                             isActive      |-> TRUE,
                             isPaused      |-> FALSE,
                             duration      |-> Len(series),
                             timeSeries    |-> series,
                             lastNudgeTime |-> Unset,
                             nudgeCount    |-> 0 ]
                    /\ lastCall = IF series = <<>>
                                  THEN [ op |-> "startSession", outcome |-> "returned" ]
                                  ELSE [ op |-> "addMetrics", outcome |-> "returned",
                                         metrics |-> series[Len(series)] ]
          /\ nextId = 2
    /\ now = 1000
    /\ stop = Idle
    /\ dbSessions = {}
    /\ dbTimeSeries = {}
    /\ nudgedAt = Unset
    /\ PageIdle
    /\ SyncIdle

GetEngagementStats ==
    /\ lastCall.op # "getEngagementStats"
    /\ getEngagementStatsCall
    /\ UNCHANGED <<engineVars, pageVars, syncVars>>

NextPercent == GetEngagementStats

SpecPercent == InitPercent /\ [][NextPercent]_vars

----------------------------------------------------------------------------
(* SpecState: processFrame calls with every expression label and every     *)
(* hand reading, at instants two seconds apart                              *)

AllLabels == NegativeExpressions \cup {"happy", "neutral", "unknown"}

StateSamples ==
    [ facePresent     : BOOLEAN,
      eyesClosed      : BOOLEAN,
      yawning         : {FALSE},
      lookingAway     : BOOLEAN,
      eyeAspectRatio  : {EarTired},
      mouthOpenRatio  : {MouthWide},
      expressionLabel : AllLabels ]

StateInstants == {1000, 3000}

StateTick ==
    /\ \E cv \in StateSamples, hand \in HandInputs, t \in StateInstants :
          /\ t > LastTimestamp
          /\ processFrame(cv, hand, t)
    /\ UNCHANGED <<storeVars, pageVars, syncVars>>

NextState == StateTick

SpecState == InitStore /\ [][NextState]_vars

----------------------------------------------------------------------------
(* SpecSerial: the study page when every interval callback has ended before *)
(* the next one starts                                                      *)

SerialCallback ==
    /\ inflight = {}
    /\ fired < MaxSerialTicks
    /\ intervalCallback
    /\ UNCHANGED <<engineVars, storeVars, syncVars>>

NextSerial ==
    \/ HandleStart
    \/ SerialCallback
    \/ DetectionResolved
    \/ DetectionFailed
    \/ PingResolved
    \/ AdvanceClock

SpecSerial == InitPage /\ [][NextSerial]_vars

----------------------------------------------------------------------------
(* API: POST /sync/sessions                                                  *)

RECURSIVE downsampleOffByOne(_, _)
\* The filter keeping every 5th point counted from 1.
downsampleOffByOne(timeSeries, i) ==
    IF i > Len(timeSeries) THEN <<>>
    ELSE (IF i % 5 = 0 THEN <<timeSeries[i]>> ELSE <<>>)
             \o downsampleOffByOne(timeSeries, i + 1)

RECURSIVE downsample(_, _)
\* timeSeries.filter((_, index) => index % 5 === 0), from the i-th point on;
\* the i-th point has index i - 1.
downsample(timeSeries, i) ==
    IF i > Len(timeSeries) THEN <<>>
    ELSE (IF (i - 1) % 5 = 0 THEN <<timeSeries[i]>> ELSE <<>>)
             \o downsample(timeSeries, i + 1)

RECURSIVE sumScores(_, _)
sumScores(timeSeries, i) ==
    IF i > Len(timeSeries) THEN 0 ELSE timeSeries[i].score + sumScores(timeSeries, i + 1)

\* The instants of the date strings a client sends, in ms since the epoch.
IsoInstants ==
    [ s \in {"1970-01-01T00:00:01.000Z", "1970-01-01T00:00:02.000Z"} |->
          IF s = "1970-01-01T00:00:01.000Z" THEN 1000 ELSE 2000 ]

\* new Date(s): the instant of a string Date can parse, an Invalid Date
\* (no instant) for any other string.
InvalidDate == Unset

DateOf(s) == IF s \in DOMAIN IsoInstants THEN {IsoInstants[s]} ELSE InvalidDate

SessionFields == {"id", "startedAt", "durationSec"}

\* syncSessionSchema.parse(body) succeeds: the fields are there, the seconds
\* are not negative, every point has a known state and a score in 0..100.
\* startedAt has to be a string; the transform to a Date rejects nothing.
validBody(body) ==
    /\ DOMAIN body = {"session", "timeSeries"}
    /\ DOMAIN body.session = SessionFields
    /\ body.session.durationSec >= 0
    /\ \A i \in 1..Len(body.timeSeries) :
           /\ body.timeSeries[i].state \in EngagementState
           /\ body.timeSeries[i].score >= 0
           /\ body.timeSeries[i].score <= 100

\* The document findOneAndUpdate writes for a valid body.
sessionAggregate(uid, body) ==
    [ userId             |-> uid,
      sessionId          |-> body.session.id,
      startedAt          |-> DateOf(body.session.startedAt),
      durationSec        |-> body.session.durationSec,
      avgEngagementScore |-> IF Len(body.timeSeries) > 0
                             THEN RoundDiv(sumScores(body.timeSeries, 1), Len(body.timeSeries))
                             ELSE 0,
      timeSeries         |-> downsample(body.timeSeries, 1) ]

\* The _id of the aggregate of (uid, sessionId): that of the document found,
\* a new one for a document the upsert inserts.
docIdFor(uid, sessionId) ==
    IF \E a \in aggregates : a.userId = uid /\ a.sessionId = sessionId
    THEN (CHOOSE a \in aggregates : a.userId = uid /\ a.sessionId = sessionId).docId
    ELSE Cardinality(aggregates) + 1

\* The request repeats the one before it, which was answered with 200.
isRepost(uid, body) ==
    response.status = 200 /\ response.uid = uid /\ response.body = body

reply(status, uid, body) ==
    [ status |-> status, uid |-> uid, body |-> body, repost |-> isRepost(uid, body) ]

\* A handler that inserts a new aggregate for every valid body.
postSessionsInsert(uid, body) ==
    IF ~validBody(body) \/ DateOf(body.session.startedAt) = InvalidDate
    THEN /\ response' = reply(400, uid, body)
         /\ UNCHANGED <<aggregates, users>>
    ELSE /\ users' = { u \in users : u.uid # uid } \cup
                         { [ uid |-> uid, lastSyncAt |-> now ] }
         /\ aggregates' = aggregates \cup
                { [ docId |-> Cardinality(aggregates) + 1 ] @@ sessionAggregate(uid, body) }
         /\ response' = reply(200, uid, body)

\* POST /sync/sessions by user uid.  A body the schema rejects is answered
\* with 400 before anything is written.  Else the User is upserted with
\* lastSyncAt; then the aggregate of (uid, session id) is created or
\* replaced, unless the update cannot be cast (an Invalid Date for startedAt)
\* or another user's aggregate has the session id (sessionId is unique):
\* those errors are answered with 500.
postSessions(uid, body) ==
    IF ~validBody(body)
    THEN /\ response' = reply(400, uid, body)
         /\ UNCHANGED <<aggregates, users>>
    ELSE /\ users' = { u \in users : u.uid # uid } \cup
                         { [ uid |-> uid, lastSyncAt |-> now ] }
         /\ IF \/ DateOf(body.session.startedAt) = InvalidDate
               \/ \E a \in aggregates : a.sessionId = body.session.id /\ a.userId # uid
            THEN /\ response' = reply(500, uid, body)
                 /\ UNCHANGED aggregates
            ELSE /\ aggregates' =
                        { a \in aggregates :
                            ~(a.userId = uid /\ a.sessionId = body.session.id) }
                        \cup { [ docId |-> docIdFor(uid, body.session.id) ]
                                   @@ sessionAggregate(uid, body) }
                 /\ response' = reply(200, uid, body)

\* A response that carries no request body.
NoBody == [ none |-> TRUE ]

\* .select('-timeSeries'): the document without its series.
withoutTimeSeries(a) == [ f \in DOMAIN a \ {"timeSeries"} |-> a[f] ]

\* .sort({ startedAt: -1 }): the documents in every order with startedAt
\* descending; documents with equal startedAt come in any order.
sortedByStartedAtDesc(docs) ==
    { seq \in [1..Cardinality(docs) -> docs] :
        /\ \A i \in DOMAIN seq : \A j \in DOMAIN seq : i # j => seq[i] # seq[j]
        /\ \A i \in DOMAIN seq : \A j \in DOMAIN seq :
               i < j => ValueOf(seq[i].startedAt) >= ValueOf(seq[j].startedAt) }

\* A list handler whose query has no userId.
getSessionsOfAll(uid, from, to, limit) ==
    /\ IF \/ (from # "" /\ DateOf(from) = InvalidDate)
          \/ (to # "" /\ DateOf(to) = InvalidDate)
       THEN response' = [ status |-> 500, uid |-> uid, body |-> NoBody, repost |-> FALSE ]
       ELSE LET matches == { a \in aggregates :
                               /\ from # "" => ValueOf(a.startedAt) >= ValueOf(DateOf(from))
                               /\ to # "" => ValueOf(a.startedAt) <= ValueOf(DateOf(to)) }
            IN  \E sorted \in sortedByStartedAtDesc(matches) :
                   response' =
                       [ status |-> 200, uid |-> uid, body |-> NoBody, repost |-> FALSE,
                         sessions |-> [ i \in 1..Min(limit, Len(sorted)) |->
                                            withoutTimeSeries(sorted[i]) ] ]
    /\ UNCHANGED <<aggregates, users>>

\* GET /sync/sessions by user uid with the query from, to ("" when absent)
\* and limit: the user's aggregates with startedAt in the range, latest
\* first, at most limit of them, without their series.  A from or to that
\* Date cannot parse cannot be cast for the query: 500.
getSessions(uid, from, to, limit) ==
    /\ IF \/ (from # "" /\ DateOf(from) = InvalidDate)
          \/ (to # "" /\ DateOf(to) = InvalidDate)
       THEN response' = [ status |-> 500, uid |-> uid, body |-> NoBody, repost |-> FALSE ]
       ELSE LET matches == { a \in aggregates :
                               /\ a.userId = uid
                               /\ from # "" => ValueOf(a.startedAt) >= ValueOf(DateOf(from))
                               /\ to # "" => ValueOf(a.startedAt) <= ValueOf(DateOf(to)) }
            IN  \E sorted \in sortedByStartedAtDesc(matches) :
                   response' =
                       [ status |-> 200, uid |-> uid, body |-> NoBody, repost |-> FALSE,
                         sessions |-> [ i \in 1..Min(limit, Len(sorted)) |->
                                            withoutTimeSeries(sorted[i]) ] ]
    /\ UNCHANGED <<aggregates, users>>

\* GET /sync/sessions/:sessionId by user uid: the user's aggregate with that
\* session id, series included, or 404.
getSession(uid, sessionId) ==
    /\ IF \E a \in aggregates : a.userId = uid /\ a.sessionId = sessionId
       THEN \E a \in aggregates :
               /\ a.userId = uid /\ a.sessionId = sessionId
               /\ response' = [ status |-> 200, uid |-> uid, body |-> NoBody,
                                 repost |-> FALSE, sessionId |-> sessionId, session |-> a ]
       ELSE response' = [ status |-> 404, uid |-> uid, body |-> NoBody,
                          repost |-> FALSE, sessionId |-> sessionId ]
    /\ UNCHANGED <<aggregates, users>>

----------------------------------------------------------------------------
(* SpecSync: requests to POST /sync/sessions                                *)

SyncUsers == {"u1", "u2"}

\* The points a client submits: tSec is the index, as stopSession numbers
\* them.
SyncPoint(i, kind) == [ tSec |-> i - 1, state |-> kind.state, score |-> kind.score ]

SyncKinds == { MetricsOf("engaged"), MetricsOf("away") }

\* The series submitted: of every length up to MaxSyncLen, the kind of the
\* points at indices 0, 10, ..., of those at indices 5, 15, ... and of the
\* points in between chosen independently.
SyncSeries ==
    UNION { { [ i \in 1..n |->
                  SyncPoint(i, IF (i - 1) % 5 # 0 THEN kinds[2] ELSE kinds[((i - 1) \div 5) % 2]) ]
              : kinds \in [0..2 -> SyncKinds] }
            : n \in 0..MaxSyncLen }

\* Bodies with every field: those of a finished session with each series,
\* and, with a short series, those with negative seconds or with a startedAt
\* Date cannot parse.
ShapedBodies ==
    { [ session |-> [ id |-> "s1", startedAt |-> "1970-01-01T00:00:01.000Z",
                      durationSec |-> 60 ],
        timeSeries |-> ts ] : ts \in SyncSeries }
    \cup
    { [ session |-> [ id |-> "s1", startedAt |-> at, durationSec |-> d ],
        timeSeries |-> ts ]
      : at \in {"1970-01-01T00:00:01.000Z", "yesterday"},
        d \in {0 - 1, 60},
        ts \in { ts \in SyncSeries : Len(ts) <= 1 } }

\* Bodies without the declared shape: a missing field, no series, a point
\* with an unknown state, a point with a score over 100.
MalformedBodies ==
    { [ session |-> [ id |-> "s1", startedAt |-> "1970-01-01T00:00:01.000Z" ],
        timeSeries |-> <<>> ],
      [ session |-> [ id |-> "s1", startedAt |-> "1970-01-01T00:00:01.000Z",
                      durationSec |-> 60 ] ],
      [ session |-> [ id |-> "s1", startedAt |-> "1970-01-01T00:00:01.000Z",
                      durationSec |-> 60 ],
        timeSeries |-> << [ tSec |-> 0, state |-> "bored", score |-> 50 ] >> ],
      [ session |-> [ id |-> "s1", startedAt |-> "1970-01-01T00:00:01.000Z",
                      durationSec |-> 60 ],
        timeSeries |-> << [ tSec |-> 0, state |-> "engaged", score |-> 101 ] >> ] }

SyncBodies == ShapedBodies \cup MalformedBodies

InitSync == EngineIdle /\ StoreInit /\ PageIdle /\ SyncIdle

PostSessions ==
    /\ \E uid \in SyncUsers, body \in SyncBodies : postSessions(uid, body)
    /\ UNCHANGED <<engineVars, storeVars, pageVars>>

NextSync == PostSessions \/ AdvanceClock

SpecSync == InitSync /\ [][NextSync]_vars

----------------------------------------------------------------------------
(* SpecIsolation: two users posting sessions with the same and with         *)
(* different ids, and reading them back                                     *)

SessionIdsSent == {"s1", "s2"}

SentDates == {"1970-01-01T00:00:01.000Z", "1970-01-01T00:00:02.000Z"}

IsolationBodies ==
    { [ session |-> [ id |-> id, startedAt |-> at, durationSec |-> 60 ],
        timeSeries |-> << SyncPoint(1, MetricsOf("engaged")) >> ]
      : id \in SessionIdsSent, at \in SentDates }

QueryDates == {"", "1970-01-01T00:00:02.000Z", "yesterday"}

QueryLimits == {1, 50}

PostOwnSession ==
    /\ \E uid \in SyncUsers, body \in IsolationBodies : postSessions(uid, body)
    /\ UNCHANGED <<engineVars, storeVars, pageVars>>

GetSessions ==
    /\ \E uid \in SyncUsers, from \in QueryDates, to \in QueryDates, limit \in QueryLimits :
          getSessions(uid, from, to, limit)
    /\ UNCHANGED <<engineVars, storeVars, pageVars>>

GetSession ==
    /\ \E uid \in SyncUsers, sessionId \in SessionIdsSent : getSession(uid, sessionId)
    /\ UNCHANGED <<engineVars, storeVars, pageVars>>

NextIsolation == PostOwnSession \/ GetSessions \/ GetSession

SpecIsolation == InitSync /\ [][NextIsolation]_vars

----------------------------------------------------------------------------
(* SpecConfig: engines constructed with, and updated to, configurations a   *)
(* caller supplies, processing frames in between                            *)

\* The partial configurations supplied: the study page's, and single
\* thresholds, valid and negative.
PartialConfigs ==
    { [ eyeClosedDuration |-> 1000, yawnDuration |-> 1000,
        lookAwayDuration |-> 1500, baselineScore |-> Pts(70) ],
      [ yawnDuration |-> 1500 ],
      [ eyeClosedDuration |-> 0 - 1000 ],
      [ lookAwayDuration |-> 0 - 500 ] }

InitConfig ==
    /\ \E partial \in PartialConfigs : config = constructorConfig(partial)
    /\ stateHistory = EmptyHistory
    /\ scoreHistory = <<>>
    /\ log = <<>>
    /\ answer = NoAnswer
    /\ StoreInit
    /\ PageIdle
    /\ SyncIdle

UpdateConfig ==
    /\ \E newConfig \in PartialConfigs : updateConfig(newConfig)
    /\ UNCHANGED <<storeVars, pageVars, syncVars>>

ConfigTick ==
    /\ Len(log) < MaxConfigTicks
    /\ \E cv \in SeqCvInputs, t \in Timestamps :
          /\ t > LastTimestamp
          /\ processFrame(cv, NoHands, t)
    /\ UNCHANGED <<storeVars, pageVars, syncVars>>

NextConfig == UpdateConfig \/ ConfigTick

SpecConfig == InitConfig /\ [][NextConfig]_vars

----------------------------------------------------------------------------
(* SpecTwin: short runs of an engine, to be repeated on a second engine     *)

TwinTick ==
    /\ Len(log) < MaxTwinTicks
    /\ \E cv \in SeqCvInputs, t \in Timestamps :
          /\ t > LastTimestamp
          /\ processFrame(cv, NoHands, t)
    /\ UNCHANGED <<storeVars, pageVars, syncVars>>

NextTwin == TwinTick

SpecTwin == Init /\ [][NextTwin]_vars

----------------------------------------------------------------------------
(* SpecReset: processFrame calls with reset calls in between                *)

ResetTick ==
    /\ Len(log) < MaxResetTicks
    /\ \E cv \in SeqCvInputs, t \in Timestamps :
          /\ t > LastTimestamp
          /\ processFrame(cv, NoHands, t)
    /\ UNCHANGED <<storeVars, pageVars, syncVars>>

Reset ==
    /\ reset
    /\ UNCHANGED <<storeVars, pageVars, syncVars>>

NextReset == ResetTick \/ Reset

SpecReset == Init /\ [][NextReset]_vars

----------------------------------------------------------------------------
(* SpecPersist: stopSession writing series of up to MaxPersistLen points to *)
(* storage                                                                  *)

\* The series of each length: all engaged, all sleepy, and the two
\* alternating.
PersistSeries ==
    UNION { { [ i \in 1..n |-> MetricsOf(IF (i + k) % m = 0 THEN "engaged" ELSE "sleepy") ]
              : k \in 0..1, m \in 1..2 } \cup
            { [ i \in 1..n |-> MetricsOf("sleepy") ] }
            : n \in 0..MaxPersistLen }

InitPersist ==
    /\ EngineIdle
    /\ \E series \in PersistSeries :
          /\ currentSession =
                 [ id            |-> 1,
                   userId        |-> "u1",
                   startedAt     |-> 1000,
                   endedAt       |-> Unset,
                   isActive      |-> TRUE,
                   isPaused      |-> FALSE,
                   duration      |-> Len(series),
                   timeSeries    |-> series,
                   lastNudgeTime |-> Unset,
                   nudgeCount    |-> 0 ]
          /\ now = 1000 + 1000 * Len(series)
          /\ lastCall = IF series = <<>>
                        THEN [ op |-> "startSession", outcome |-> "returned" ]
                        ELSE [ op |-> "addMetrics", outcome |-> "returned",
                               metrics |-> series[Len(series)] ]
    /\ nextId = 2
    /\ stop = Idle
    /\ dbSessions = {}
    /\ dbTimeSeries = {}
    /\ nudgedAt = Unset
    /\ PageIdle
    /\ SyncIdle

NextPersist ==
    \/ StopSessionCall
    \/ StopSessionSaved
    \/ StopSessionFinish
    \/ StopSessionRejected

SpecPersist == InitPersist /\ [][NextPersist]_vars

----------------------------------------------------------------------------
(* SpecQuery: getAverageScore and getTrendDirection called between the      *)
(* frames of a run                                                          *)

\* An attentive face with the given eye aspect ratio and expression label.
Face(ear, label) ==
    [ facePresent |-> TRUE, eyesClosed |-> FALSE, yawning |-> FALSE,
      lookingAway |-> FALSE, eyeAspectRatio |-> ear, mouthOpenRatio |-> MouthWide,
      expressionLabel |-> label ]

\* Three faces whose scores under the default configuration are 60, 65 and
\* 70, whatever the timers hold.
QuerySamples ==
    { Face(EarTired, "sad"), Face(EarTired - 1, "unknown"), Face(EarTired - 1, "neutral") }

QueryWindows == {0, 4, 5, 6, 10}

InitQuery == EngineIdle /\ StoreInit /\ PageIdle /\ SyncIdle

QueryTick ==
    /\ Len(log) < MaxQueryTicks
    /\ \E cv \in QuerySamples : processFrame(cv, NoHands, 1000 * (Len(log) + 1))
    /\ UNCHANGED <<storeVars, pageVars, syncVars>>

GetAverageScore ==
    /\ \E w \in QueryWindows : getAverageScore(w)
    /\ UNCHANGED <<storeVars, pageVars, syncVars>>

GetTrendDirection ==
    /\ \E w \in QueryWindows : getTrendDirection(w)
    /\ UNCHANGED <<storeVars, pageVars, syncVars>>

NextQuery == QueryTick \/ GetAverageScore \/ GetTrendDirection

SpecQuery == InitQuery /\ [][NextQuery]_vars

----------------------------------------------------------------------------
(* SpecHistory: runs longer than the score history                          *)

\* The samples frame k of a long run is drawn from: up to HistoryPrefix an
\* attentive face, every third frame an empty one; any of QuerySamples
\* after that.
HistorySamples(k) ==
    IF k > HistoryPrefix THEN QuerySamples
    ELSE IF k % 3 = 0 THEN { NoFaceSample }
    ELSE { Face(2 * EarTired, "neutral") }

InitHistory == EngineIdle /\ StoreInit /\ PageIdle /\ SyncIdle

HistoryTick ==
    /\ Len(log) < MaxHistoryTicks
    /\ \E cv \in HistorySamples(Len(log) + 1) :
          processFrame(cv, NoHands, 1000 * (Len(log) + 1))
    /\ UNCHANGED <<storeVars, pageVars, syncVars>>

NextHistory == HistoryTick

SpecHistory == InitHistory /\ [][NextHistory]_vars

----------------------------------------------------------------------------
(* What the log says about the input sequence *)

Last == log[Len(log)]

EyesClosedIn(cv) == cv.eyesClosed

YawningIn(cv) == cv.yawning

LookingAwayIn(cv) == cv.lookingAway

FaceAbsentIn(cv) == ~cv.facePresent

\* The first tick of the unbroken run of ticks, ending at tick k, on which
\* condition C was true (C is true on tick k).
RunStartIdx(C(_), k) ==
    CHOOSE i \in 1..k :
        /\ \A j \in i..k : C(log[j].cv)
        /\ i = 1 \/ ~C(log[i - 1].cv)

\* The start of the current run of C as an optional timestamp: unset when C
\* was false on the latest tick.
RunStart(C(_)) ==
    IF C(Last.cv) THEN {log[RunStartIdx(C, Len(log))].timestamp} ELSE Unset

\* Whether the run of C ending at the latest tick has lasted at least ms.
RunLasted(C(_), ms) ==
    C(Last.cv) /\ Last.timestamp - log[RunStartIdx(C, Len(log))].timestamp >= ms

Ind(b) == IF b THEN 1 ELSE 0

\* x (in units of 1/ScoreScale) rounded to the nearest whole number, halves up.
Nearest(x) ==
    CHOOSE r \in (x \div ScoreScale)..(x \div ScoreScale + 1) :
        /\ 2 * ScoreScale * r <= 2 * x + ScoreScale
        /\ 2 * x + ScoreScale < 2 * ScoreScale * (r + 1)

Clamp(lo, hi, x) == IF x < lo THEN lo ELSE IF x > hi THEN hi ELSE x

----------------------------------------------------------------------------
(* Claims about the classifier *)

\* C1: every EngagementMetrics returned by processFrame has an integer score
\* in 0..100 and a confidence in 0..1 (0..10 tenths).
C1_ScoreAndConfidenceInRange ==
    \A k \in 1..Len(log) :
        /\ log[k].metrics.score \in 0..100
        /\ log[k].metrics.confidence \in 0..10

\* C1 witness: a frame whose sum lies below 0 has been scored 0, with the
\* confidence at its cap.
C1_Witness ==
    /\ Len(log) = 2
    /\ rawScore(config, Last.metrics.state, Last.cv, Last.hand) < 0
    /\ Last.metrics.score = 0
    /\ Last.metrics.confidence = 10

\* C2: whenever the face has been absent on every tick of a span of at least
\* 2000 ms ending at the current tick, the returned state is away.
C2_AwayAfterTwoSecondsAbsent ==
    log # <<>> /\ RunLasted(FaceAbsentIn, 2000) => Last.metrics.state = "away"

\* The state the decision list of the specification gives a tick that is not
\* away, with run lengths measured on the input sequence.
DecisionList ==
    IF \/ RunLasted(EyesClosedIn, config.eyeClosedDuration)
       \/ RunLasted(YawningIn, config.yawnDuration)
    THEN "sleepy"
    ELSE IF \/ RunLasted(LookingAwayIn, config.lookAwayDuration)
            \/ Last.hand.handsFidgeting
            \/ Last.hand.handOverFace
            \/ Last.cv.expressionLabel \in {"sad", "angry", "fearful", "disgusted", "surprised"}
    THEN "distracted"
    ELSE IF Last.cv.facePresent /\ ~Last.cv.lookingAway /\ ~Last.cv.eyesClosed
    THEN "engaged"
    ELSE "distracted"

\* C3: on every tick that is not classified away, processFrame returns the
\* first matching entry of the decision list sleepy / distracted / engaged /
\* distracted, the runs being the runs of the input sequence.
C3_DecisionList ==
    log # <<>> /\ Last.metrics.state # "away" => Last.metrics.state = DecisionList

\* C4: each timer is unset iff its condition was false on the latest tick and
\* otherwise holds the timestamp of the first tick of the current unbroken run
\* of its condition, timestamp 0 included.
C4_TimersHoldRunStart ==
    log # <<>> =>
        /\ stateHistory.eyesClosedStart = RunStart(EyesClosedIn)
        /\ stateHistory.yawnStart = RunStart(YawningIn)
        /\ stateHistory.lookAwayStart = RunStart(LookingAwayIn)
        /\ stateHistory.faceAbsentStart = RunStart(FaceAbsentIn)

\* The scenario of C5: face-absent ticks at 0, 1000 and 2000 ms, then a tick
\* at 2100 ms with the face present; every flag the scenario does not name
\* is off.
ScenarioTimes == <<0, 1000, 2000, 2100>>

ScenarioTick(k) ==
    /\ log[k].timestamp = ScenarioTimes[k]
    /\ log[k].cv.facePresent = (k = 4)
    /\ ~log[k].cv.lookingAway /\ ~log[k].cv.eyesClosed /\ ~log[k].cv.yawning
    /\ log[k].hand = NoHands

ScenarioUpTo(n) == Len(log) >= n /\ \A k \in 1..n : ScenarioTick(k)

\* C5: on a new classifier with the default configuration the scenario gives
\* a state other than away on the first two ticks, away on the tick at
\* 2000 ms and engaged on the tick at 2100 ms.
C5_AwayScenario ==
    config = DefaultConfig =>
        /\ ScenarioUpTo(1) => log[1].metrics.state # "away"
        /\ ScenarioUpTo(2) => log[2].metrics.state # "away"
        /\ ScenarioUpTo(3) => log[3].metrics.state = "away"
        /\ ScenarioUpTo(4) => log[4].metrics.state = "engaged"

\* Tick i is a single eyes-closed tick between two eyes-open ticks, without
\* yawning, and eyeClosedDuration is longer than the tick period around it.
IsolatedBlink(i) ==
    /\ i > 1 /\ i < Len(log)
    /\ ~log[i - 1].cv.eyesClosed /\ log[i].cv.eyesClosed /\ ~log[i + 1].cv.eyesClosed
    /\ ~log[i].cv.yawning /\ ~log[i + 1].cv.yawning
    /\ config.eyeClosedDuration > log[i].timestamp - log[i - 1].timestamp
    /\ config.eyeClosedDuration > log[i + 1].timestamp - log[i].timestamp

\* C6: an isolated eyes-closed tick never produces sleepy, on that tick or on
\* the following one.
C6_IsolatedBlinkNotSleepy ==
    \A i \in 1..Len(log) :
        IsolatedBlink(i) =>
            log[i].metrics.state # "sleepy" /\ log[i + 1].metrics.state # "sleepy"

\* C6 witness: an isolated blink with the face present has been classified,
\* distracted on the blink and engaged on the next tick.
C6_Witness ==
    /\ Len(log) = 3
    /\ IsolatedBlink(2)
    /\ log[2].metrics.state = "distracted"
    /\ log[3].metrics.state = "engaged"

\* C7: the score is the sum baseline + state weight + 5 (face) + 5 (happy or
\* neutral) - 10 (fidgeting) - 15 (hand over face) - 20 (eye aspect ratio
\* below 0.15) - 15 (mouth open ratio above 0.8), rounded and clamped to
\* 0..100; the state weight and the instantaneous penalties compound.
ScoreSum(cfg, e) ==
    cfg.baselineScore + cfg.stateWeights[e.metrics.state]
    + Pts(5) * Ind(e.cv.facePresent)
    + Pts(5) * Ind(e.cv.expressionLabel \in {"happy", "neutral"})
    - Pts(10) * Ind(e.hand.handsFidgeting)
    - Pts(15) * Ind(e.hand.handOverFace)
    - Pts(20) * Ind(e.cv.eyeAspectRatio < 15)
    - Pts(15) * Ind(e.cv.mouthOpenRatio > 80)

C7_ScoreFormula ==
    \A k \in 1..Len(log) :
        log[k].metrics.score = Clamp(0, 100, Nearest(ScoreSum(config, log[k])))

\* C7 witness: a sleepy frame with tired eyes and a wide yawn under the
\* default configuration, where weight and penalties compound to 70 - 25 + 5
\* + 5 - 20 - 15 = 20.
C7_Witness ==
    /\ Len(log) = 2
    /\ config = DefaultConfig
    /\ Last.metrics.state = "sleepy"
    /\ Last.cv.facePresent /\ Last.cv.expressionLabel = "neutral"
    /\ Last.hand = NoHands
    /\ Last.cv.eyeAspectRatio < 15 /\ Last.cv.mouthOpenRatio > 80
    /\ Last.metrics.score = 20

\* C30: the confidence of every call, in tenths, is 5, plus 3 when a face is
\* present, plus 1 when the eye aspect ratio is positive, plus 1 when the
\* expression label is not 'unknown', at most 10: a function of the sample
\* alone, whatever the state, the timers and the hand metrics.
C30_ConfidenceFormula ==
    \A k \in 1..Len(log) :
        log[k].metrics.confidence =
            Min(10, 5 + 3 * Ind(log[k].cv.facePresent)
                      + Ind(log[k].cv.eyeAspectRatio > 0)
                      + Ind(log[k].cv.expressionLabel # "unknown"))

\* C30 witness: a face with closed eyes of ratio 0 and a known expression,
\* with a hand over the face, classified on a tick whose state differs from
\* that of the tick before: confidence 0.9.
C30_Witness ==
    /\ Len(log) = 2
    /\ Last.cv.facePresent /\ Last.cv.eyeAspectRatio = 0
    /\ Last.cv.expressionLabel = "sad"
    /\ Last.hand.handOverFace
    /\ Last.metrics.state # log[1].metrics.state
    /\ Last.metrics.confidence = 9

\* A second engine with the same configuration, fed the calls of the log.
SecondEngine == engineAfter(config, log, Len(log))

C27_HistoryIsLastThirty ==
    /\ Len(scoreHistory) = Min(Len(log), maxHistoryLength)
    /\ \A i \in 1..Len(scoreHistory) :
          scoreHistory[i] = log[Len(log) - Len(scoreHistory) + i].metrics.score

\* C27 witness: after 32 calls the history starts with the score of the
\* third call, which is not that of the first, and ends with the score of
\* the latest, which is not that of the one before.
C27_Witness ==
    /\ Len(log) = MaxHistoryTicks
    /\ Len(scoreHistory) = maxHistoryLength
    /\ scoreHistory[1] = log[MaxHistoryTicks - maxHistoryLength + 1].metrics.score
    /\ scoreHistory[1] # log[1].metrics.score
    /\ scoreHistory[maxHistoryLength] = Last.metrics.score
    /\ scoreHistory[maxHistoryLength] # scoreHistory[maxHistoryLength - 1]

RECURSIVE SumFrom(_, _)
\* The sum of the scores of the history from the i-th on.
SumFrom(history, i) ==
    IF i > Len(history) THEN 0 ELSE history[i] + SumFrom(history, i + 1)

\* The step is a call of the named query.
Answered(op) == answer' # answer /\ answer'.op = op

\* C28: getAverageScore(w) returns the mean of the last min(w, length)
\* scores of the history, baselineScore when the history is empty, and
\* changes neither the history nor the timers.
C28_AverageOfWindow ==
    [][Answered("getAverageScore") =>
          LET m == Min(answer'.windowSeconds, Len(scoreHistory))
              r == answer'.result
          IN  /\ m > 0 =>
                    r.num * m = SumFrom(scoreHistory, Len(scoreHistory) - m + 1) * r.den
              /\ Len(scoreHistory) = 0 =>
                    r.num * ScoreScale = config.baselineScore * r.den
              /\ UNCHANGED <<config, stateHistory, scoreHistory, log>>]_vars

\* C28 witness: the average over a window of 4 of a history of 6 scores,
\* which is not the average of the 6.
C28_Witness ==
    /\ answer.op = "getAverageScore"
    /\ answer.windowSeconds = 4
    /\ Len(scoreHistory) = MaxQueryTicks
    /\ answer.result.den = 4
    /\ answer.result.num = SumFrom(scoreHistory, MaxQueryTicks - 3)
    /\ answer.result.num * MaxQueryTicks # SumFrom(scoreHistory, 1) * 4

\* The trend read off two averages in exact arithmetic: the sign of
\* secondAvg - firstAvg - 5 and of secondAvg - firstAvg + 5.
trendOfExact(firstSum, firstLen, secondSum, secondLen) ==
    LET cross == secondSum * firstLen - firstSum * secondLen
    IN  IF cross > 5 * firstLen * secondLen THEN "improving"
        ELSE IF cross < 0 - 5 * firstLen * secondLen THEN "declining"
        ELSE "stable"

\* The trend the rule gives: stable for a window of fewer than 5 scores,
\* else by the difference of the means of the second half and of the first
\* half of floor(size / 2) scores.
RuleTrend(history, w) ==
    LET m    == Min(w, Len(history))
        half == m \div 2
        from == Len(history) - m + 1
    IN  IF m < 5 THEN "stable"
        ELSE trendOfExact(SumFrom(history, from) - SumFrom(history, from + half), half,
                          SumFrom(history, from + half), m - half)

\* C29: getTrendDirection(w) returns stable for a window of fewer than 5
\* scores; else improving exactly when the mean of the second half exceeds
\* that of the first by more than 5, declining exactly when it falls short
\* by more than 5, and stable otherwise, a difference of exactly 5 included.
C29_TrendByHalves ==
    [][Answered("getTrendDirection") =>
          answer'.result = RuleTrend(scoreHistory, answer'.windowSeconds)]_vars

\* The part of C29 away from a difference of exactly 5 or -5.
TrendOffTheBoundary ==
    [][Answered("getTrendDirection") =>
          LET w    == answer'.windowSeconds
              m    == Min(w, Len(scoreHistory))
              half == m \div 2
              from == Len(scoreHistory) - m + 1
              a    == SumFrom(scoreHistory, from) - SumFrom(scoreHistory, from + half)
              b    == SumFrom(scoreHistory, from + half)
              x    == b * half - a * (m - half)
          IN  (m < 5 \/ (x # 5 * half * (m - half) /\ x # 0 - 5 * half * (m - half))) =>
                  answer'.result = RuleTrend(scoreHistory, w)]_vars

\* C20: a configuration with a negative duration threshold is rejected by
\* the constructor and by updateConfig, so the configuration in force never
\* has a negative eyeClosedDuration, yawnDuration or lookAwayDuration.
C20_ConfigValidated ==
    /\ config.eyeClosedDuration >= 0
    /\ config.yawnDuration >= 0
    /\ config.lookAwayDuration >= 0

----------------------------------------------------------------------------
(* Claims about the session store *)

\* What C8 says an addMetrics call does to the store.
AddMetricsEffect ==
    IF currentSession = NoSession \/ ~currentSession.isActive \/ currentSession.isPaused
    THEN UNCHANGED <<currentSession, now, nextId, stop, dbSessions, dbTimeSeries>>
    ELSE LET n == Len(currentSession.timeSeries)
         IN  /\ Len(currentSession'.timeSeries) = n + 1
             /\ SubSeq(currentSession'.timeSeries, 1, n) = currentSession.timeSeries
             /\ currentSession'.timeSeries[n + 1] = lastCall'.metrics
             /\ currentSession'.duration = n + 1
             /\ DOMAIN currentSession' = DOMAIN currentSession
             /\ \A f \in DOMAIN currentSession \ {"timeSeries", "duration"} :
                    currentSession'[f] = currentSession[f]
             /\ UNCHANGED <<now, nextId, stop, dbSessions, dbTimeSeries>>

\* C8: addMetrics changes nothing when there is no session, the session is
\* not active or it is paused; otherwise it appends exactly the given metrics
\* as the last element of timeSeries, sets duration to the new length and
\* leaves every other session field unchanged.
C8_AddMetricsFrame == [][AddMetrics => AddMetricsEffect]_vars

\* C8 witness: a running session accepted one metric, was paused, and
\* addMetrics was then called on it.
C8_Witness ==
    /\ lastCall.op = "addMetrics"
    /\ currentSession # NoSession
    /\ currentSession.isActive /\ currentSession.isPaused
    /\ Len(currentSession.timeSeries) = 1
    /\ currentSession.duration = 1
    /\ currentSession.timeSeries[1] # lastCall.metrics

\* C9: the session's duration field, and the durationSec of the record
\* stopSession builds, equal the number of metrics in timeSeries.
C9_DurationIsSeriesLength ==
    /\ currentSession # NoSession =>
           currentSession.duration = Len(currentSession.timeSeries)
    /\ stop # Idle =>
           stop.record.durationSec = Len(stop.session.timeSeries)

Distracting(point) == point.state \in {"distracted", "sleepy"}

\* The maximal runs of consecutive distracting points of a series, each as
\* the pair of its first and last index.
MaximalRuns(series) ==
    { run \in (1..Len(series)) \X (1..Len(series)) :
        /\ run[1] <= run[2]
        /\ \A i \in run[1]..run[2] : Distracting(series[i])
        /\ run[1] = 1 \/ ~Distracting(series[run[1] - 1])
        /\ run[2] = Len(series) \/ ~Distracting(series[run[2] + 1]) }

\* C10: the distractedEpisodes stopSession computes is the number of maximal
\* runs of consecutive points whose state is distracted or sleepy.
C10_EpisodesAreMaximalRuns ==
    stop # Idle =>
        stop.record.distractedEpisodes = Cardinality(MaximalRuns(stop.session.timeSeries))

\* C10 witness: two distracting runs of 3 ticks separated by 2 engaged ticks
\* have been counted as 2 episodes.
C10_Witness ==
    /\ stop # Idle
    /\ Len(stop.session.timeSeries) = 8
    /\ \A i \in 1..8 :
           stop.session.timeSeries[i].state =
               (IF i \in {4, 5} THEN "engaged" ELSE "distracted")
    /\ stop.record.distractedEpisodes = 2


StateSeconds(record) ==
    record.engagedSec + record.distractedSec + record.sleepySec + record.awaySec

\* C11: the four per-state seconds of the record stopSession builds sum to
\* its durationSec within 4, the number of states.
C11_StateSecondsSumToDuration ==
    stop # Idle =>
        /\ StateSeconds(stop.record) - stop.record.durationSec <= 4
        /\ stop.record.durationSec - StateSeconds(stop.record) <= 4

\* No session is active: none was started, or the current one was stopped.
NoActiveSession == currentSession = NoSession \/ ~currentSession.isActive

\* The outcomes of a call that reports an error to its caller.
ErrorOutcomes == {"Error: No active session", "Error: storage"}

\* C14: stopSession, pauseSession and addMetrics called when no session is
\* active each report an error to the caller.
C14_MisuseReported ==
    [][(NoActiveSession /\ (StopSessionCall \/ PauseSession \/ AddMetrics)) =>
           lastCall'.outcome \in ErrorOutcomes]_vars

\* The current session has been stopped: a stopSession call for it returned.
SessionStopped == currentSession # NoSession /\ currentSession.endedAt # Unset

\* C15: after stopSession has succeeded for a session, no later call builds
\* or saves another record for that session or changes its endedAt or
\* duration.
C15_RecordBuiltOnce ==
    [][(SessionStopped /\ stop = Idle /\ currentSession' # NoSession
           /\ currentSession'.id = currentSession.id) =>
           /\ stop' = Idle
           /\ dbSessions' = dbSessions
           /\ currentSession'.endedAt = currentSession.endedAt
           /\ currentSession'.duration = currentSession.duration]_vars

\* C25: while a session is active it stays the current session, and it
\* stops being active only in the step in which a stopSession call returns.
C25_CurrentUntilStopped ==
    [][(currentSession # NoSession /\ currentSession.isActive) =>
           /\ currentSession' # NoSession
           /\ currentSession'.id = currentSession.id
           /\ ~currentSession'.isActive =>
                  (stop # Idle /\ stop' = Idle /\ lastCall'.op = "stopSession")]_vars

IsSleepy(point) == point.state = "sleepy"

C32_PointsOrderedByOffset ==
    /\ stop # Idle =>
          /\ Len(stop.points) = Len(stop.session.timeSeries)
          /\ \A i \in 1..Len(stop.points) :
                 /\ stop.points[i].tSec = i - 1
                 /\ i > 1 => stop.points[i].tSec > stop.points[i - 1].tSec
                 /\ stop.points[i].state = stop.session.timeSeries[i].state
                 /\ stop.points[i].score = stop.session.timeSeries[i].score
    /\ \A read \in { getTimeSeriesBySession(dbTimeSeries, 1) } :
          /\ { read[i] : i \in 1..Len(read) } = { p \in dbTimeSeries : p.sessionId = 1 }
          /\ \A i \in 2..Len(read) : read[i - 1].tSec < read[i].tSec

\* C32 witness: eleven points have been stored; the index yields the point
\* of tSec 10 third, and the read returns it last.
C32_Witness ==
    /\ Cardinality(dbTimeSeries) = MaxPersistLen
    /\ getAllFromIndex(dbTimeSeries, 1)[3].tSec = MaxPersistLen - 1
    /\ getTimeSeriesBySession(dbTimeSeries, 1)[MaxPersistLen].tSec = MaxPersistLen - 1

\* The fields of a SessionRecord that summarise the session.
Summary(record) ==
    [ durationSec        |-> record.durationSec,
      engagedSec         |-> record.engagedSec,
      distractedSec      |-> record.distractedSec,
      awaySec            |-> record.awaySec,
      sleepySec          |-> record.sleepySec,
      yawnCount          |-> record.yawnCount,
      distractedEpisodes |-> record.distractedEpisodes ]

\* The latest store call was a stopSession that rejected with the storage
\* error.
StopFailed ==
    lastCall.op = "stopSession" /\ lastCall.outcome = "Error: storage"

\* C22: a stopSession whose persisting rejects reports the error and leaves
\* the session with its series; and a stopSession called next, on the same
\* session with the series the failed call read, builds a record with the
\* same summary as the failed call.
C22_FailedStopRetried ==
    [][/\ (stop # Idle /\ stop' = Idle /\ lastCall'.outcome # "returned") =>
             /\ lastCall'.outcome \in ErrorOutcomes
             /\ currentSession' = currentSession
       /\ (StopFailed /\ stop = Idle /\ stop' # Idle
              /\ stop'.points = lastCall.points) =>
             Summary(stop'.record) = Summary(lastCall.record)]_vars

\* The times shouldShowNudge is asked about: the instants of the clock and
\* the two sides of the end of each cooldown.
QueryTimes ==
    ClockInstants \cup { t + NUDGE_COOLDOWN_MS - 1 : t \in ClockInstants }
                  \cup { t + NUDGE_COOLDOWN_MS : t \in ClockInstants }

\* A nudge has been recorded for the current session.
NudgeRecorded == currentSession # NoSession /\ currentSession.nudgeCount > 0

\* C16: shouldShowNudge(t) is true iff no nudge has been recorded for the
\* current session or t - lastNudgeTime >= 60000; nothing else of the state
\* matters.
C16_NudgeGate ==
    \A t \in QueryTimes :
        shouldShowNudge(currentSession, t) <=>
            \/ ~NudgeRecorded
            \/ t - ValueOf(currentSession.lastNudgeTime) >= 60000

\* C16 witness: a paused session with one point has a nudge recorded at
\* 1000 ms; the gate is closed at 60999 ms and open at 61000 ms.
C16_Witness ==
    /\ NudgeRecorded
    /\ currentSession.isPaused
    /\ Len(currentSession.timeSeries) = 1
    /\ currentSession.lastNudgeTime = {1000}
    /\ ~shouldShowNudge(currentSession, 60999)
    /\ shouldShowNudge(currentSession, 61000)

\* C17: after a recordNudge that recorded a nudge, whatever store operations
\* followed, shouldShowNudge(now) is false while less than 60000 ms have
\* passed since that nudge and true once 60000 ms have passed.
C17_CooldownAfterNudge ==
    nudgedAt # Unset =>
        (shouldShowNudge(currentSession, now) <=> now - ValueOf(nudgedAt) >= 60000)

\* C18: the TimeSeriesPoint[] stopSession produces is the series strided by
\* 5: exactly the points at indices 0, 5, 10, ... of timeSeries.
C18_PointsStridedByFive ==
    stop # Idle =>
        { stop.points[k].tSec : k \in DOMAIN stop.points } =
            { i \in 0..(Len(stop.session.timeSeries) - 1) : i % 5 = 0 }

----------------------------------------------------------------------------
(* Claims about the study page *)

\* The callbacks reached processFrame in the order their ticks fired.
InTickOrder == \A i, j \in 1..Len(order) : i < j => order[i] < order[j]

\* C12: ticks of one session never execute concurrently and are never
\* reordered: at most one interval callback is in progress at any time, and
\* samples reach processFrame in the order in which their ticks fired.
C12_TicksSequential ==
    /\ Cardinality(inflight) <= 1
    /\ InTickOrder

\* The series and the nudge bookkeeping of the session are left as they are.
SessionDataUnchanged ==
    (currentSession # NoSession /\ currentSession' # NoSession
        /\ currentSession'.id = currentSession.id) =>
        /\ currentSession'.timeSeries = currentSession.timeSeries
        /\ currentSession'.nudgeCount = currentSession.nudgeCount
        /\ currentSession'.lastNudgeTime = currentSession.lastNudgeTime

\* C13: once the processing timer has been cancelled, no step calls
\* addMetrics or processFrame, and no step changes the classifier's timers
\* and history, the series or the nudge bookkeeping.
C13_CancelDiscardsInFlight ==
    [][~timer =>
          /\ UNCHANGED <<stateHistory, scoreHistory, log, order, lastNudgeState>>
          /\ SessionDataUnchanged
          /\ ~(lastCall' # lastCall /\ lastCall'.op = "addMetrics")]_vars

\* Callback n has passed processFrame and addMetrics.
Processed(n) == \E i \in 1..Len(order) : order[i] = n

\* Callback n is still suspended on its detection.
AwaitingDetection(n) ==
    \E tk \in inflight : tk.n = n /\ tk.pc = "detectFace"

\* The samples of no detection are classified with a valid state and score
\* and confidence 0.5, and as away once the absence has lasted 2000 ms.
NullSamplesClassified ==
    /\ \A i \in 1..Len(log) :
          log[i].cv = NoFaceSample =>
              /\ log[i].metrics.state \in EngagementState
              /\ log[i].metrics.score \in 0..100
              /\ log[i].metrics.confidence = 5
    /\ (log # <<>> /\ RunLasted(FaceAbsentIn, AwayAfterMs)) =>
          Last.metrics.state = "away"

\* C21: every callback whose detection has finished, with a result, with no
\* result or with the detector unavailable, has run processFrame and
\* addMetrics; and the samples of no detection are classified as above.
C21_NoTickLost ==
    /\ \A n \in 1..fired : ~AwaitingDetection(n) => Processed(n)
    /\ NullSamplesClassified

\* The position of callback n among the processFrame calls.
PositionOf(n) == CHOOSE i \in 1..Len(order) : order[i] = n

\* The state of the tick just before callback n in the order of the
\* processFrame calls: none for the first.
StateBefore(n) ==
    IF PositionOf(n) = 1 THEN "" ELSE log[PositionOf(n) - 1].metrics.state

NeedsNudge(state) == state \in {"distracted", "sleepy", "away"}

\* The step records a nudge for callback tk.
NudgeRecordedFor(tk) ==
    /\ tk \in inflight /\ tk.pc = "playPing" /\ tk \notin inflight'
    /\ currentSession # NoSession /\ currentSession' # NoSession
    /\ currentSession'.nudgeCount = currentSession.nudgeCount + 1

\* The step is the processFrame and addMetrics of a callback, and it goes on
\* to play the ping of a nudge.
GoesOnToNudge ==
    \E tk \in inflight' : tk.pc = "playPing" /\ tk.n = order'[Len(order')]

\* C33: with notifications enabled, a tick records a nudge only for a state
\* that is distracted, sleepy or away and differs from the state of the tick
\* before it; and a tick that shouldShowNudge allows, with such a state,
\* goes on to the nudge.
C33_NudgeOnStateChange ==
    [][/\ \A tk \in inflight :
              NudgeRecordedFor(tk) =>
                  (NeedsNudge(tk.state) /\ StateBefore(tk.n) # tk.state)
       /\ (Len(order') = Len(order) + 1
              /\ shouldShowNudge(currentSession', now)
              /\ NeedsNudge(log'[Len(log')].metrics.state)
              /\ (Len(log) > 0 => log[Len(log)].metrics.state
                                      # log'[Len(log')].metrics.state)) =>
             GoesOnToNudge]_vars

\* C34: within one session, two nudges recorded by the tick loop are at least
\* NUDGE_COOLDOWN_MS apart, also when callbacks overlap or are suspended
\* between the shouldShowNudge check and recordNudge: a callback records a
\* nudge only when the session has no earlier nudge or the earlier one is
\* NUDGE_COOLDOWN_MS or more before the present instant.
C34_NudgesCooldownApart ==
    [][\A tk \in inflight :
          (NudgeRecordedFor(tk) /\ Truthy(currentSession.lastNudgeTime))
              => now - ValueOf(currentSession.lastNudgeTime) >= NUDGE_COOLDOWN_MS]_vars

\* The step in which a pending stopSession returns.
StopReturns ==
    /\ stop # Idle
    /\ stop' = Idle
    /\ lastCall'.op = "stopSession"
    /\ lastCall'.outcome = "returned"

\* C35: no metric that addMetrics appended is lost. When stopSession returns,
\* every point of the series the session held just before the return,
\* those appended while stopSession was suspended included, is among the
\* points it persisted, is in the series the store retains, and is counted
\* by the record.
C35_NoAcceptedMetricLost ==
    [][StopReturns =>
          /\ currentSession'.timeSeries = currentSession.timeSeries
          /\ Len(lastCall'.points) = Len(currentSession.timeSeries)
          /\ \A i \in 1..Len(currentSession.timeSeries) :
                 /\ i <= Len(lastCall'.points)
                 /\ lastCall'.points[i].state = currentSession.timeSeries[i].state
                 /\ lastCall'.points[i].score = currentSession.timeSeries[i].score
          /\ lastCall'.record.yawnCount = countState(currentSession.timeSeries, "sleepy")
          /\ lastCall'.record.distractedEpisodes =
                 countEpisodes(currentSession.timeSeries, 1, FALSE, 0)]_vars

\* The series of the current session, empty without one.
SeriesNow == IF currentSession = NoSession THEN <<>> ELSE currentSession.timeSeries

\* C36: within a tick processFrame and the addMetrics of its result run
\* with nothing of another tick in between, also when callbacks overlap:
\* the series of a session grows only in the step of a processFrame call
\* and then by exactly the metrics that call returned, at its end; a
\* processFrame step leaves the series alone or appends its own result; and
\* the timestamps of the series never decrease.
C36_TickAtomic ==
    /\ [](\A i \in 1..Len(SeriesNow) : \A j \in i..Len(SeriesNow) :
              SeriesNow[i].timestamp <= SeriesNow[j].timestamp)
    /\ [][/\ (/\ currentSession # NoSession /\ currentSession' # NoSession
              /\ currentSession'.id = currentSession.id
              /\ Len(currentSession'.timeSeries) > Len(currentSession.timeSeries))
               => (/\ (Len(log') = Len(log) + 1)
                   /\ currentSession'.timeSeries =
                          Append(currentSession.timeSeries, log'[Len(log')].metrics))
          /\ (Len(log') = Len(log) + 1)
               => (\/ currentSession' = currentSession
                   \/ currentSession'.timeSeries =
                          Append(currentSession.timeSeries, log'[Len(log')].metrics))]_vars

\* Two callbacks overlapped, the later one's detection resolved first, and
\* both results are in the series, the later at a later instant.
C36_Witness ==
    /\ order = <<2, 1>>
    /\ Len(SeriesNow) = 2
    /\ SeriesNow[1].timestamp < SeriesNow[2].timestamp

\* C37: processFrame returns engaged only for a sample with the face
\* present, not looking away, eyes not closed, hands not fidgeting, no hand
\* over the face and an expression outside sad, angry, fearful, disgusted,
\* surprised; and it returns away only for a sample with the face absent.
C37_EngagedOnlyWhenAttentive ==
    \A i \in 1..Len(log) :
        /\ log[i].metrics.state = "engaged" =>
               /\ log[i].cv.facePresent
               /\ ~log[i].cv.lookingAway
               /\ ~log[i].cv.eyesClosed
               /\ ~log[i].hand.handsFidgeting
               /\ ~log[i].hand.handOverFace
               /\ log[i].cv.expressionLabel \notin
                      {"sad", "angry", "fearful", "disgusted", "surprised"}
        /\ log[i].metrics.state = "away" => ~log[i].cv.facePresent

\* A sample without a face was classified neither engaged nor away, and
\* the attentive sample after it engaged.
C37_Witness ==
    /\ Len(log) = 2
    /\ ~log[1].cv.facePresent
    /\ log[1].metrics.state = "distracted"
    /\ log[2].metrics.state = "engaged"

\* C38: for a non-empty series getEngagementStats returns four integer
\* percentages, each in 0..100, whose sum is between 99 and 102; for an
\* empty series or no session it returns all zeros.
C38_PercentagesNearHundred ==
    lastCall.op = "getEngagementStats" =>
        LET stats == lastCall.stats
            sum   == stats.engaged + stats.distracted + stats.sleepy + stats.away
        IN  /\ \A st \in EngagementState : stats[st] \in 0..100
            /\ IF SeriesNow = <<>>
               THEN \A st \in EngagementState : stats[st] = 0
               ELSE 99 <= sum /\ sum <= 102

\* The processFrame calls made since the latest reset, and a new engine with
\* the present configuration after the same calls.
CallsSinceReset == SubSeq(log, answer.at + 1, Len(log))

FreshEngine == engineAfter(config, CallsSinceReset, Len(CallsSinceReset))

\* C39: after reset() the engine behaves like a new one with the same
\* configuration: reset leaves the configuration alone; right after it the
\* four timers are unset and the score history is empty, getAverageScore
\* gives baselineScore and getTrendDirection stable; and after any calls
\* that follow, the engine has returned what a new engine returns on those
\* calls, holds the same timers and scores, and answers the two queries
\* alike.
C39_ResetIsFresh ==
    /\ [](answer.op = "reset" =>
             \A fresh \in { FreshEngine } :
                 /\ fresh.log = CallsSinceReset
                 /\ fresh.hist = stateHistory
                 /\ fresh.scores = scoreHistory
                 /\ \A w \in QueryWindows :
                       /\ averageScore(config, scoreHistory, w)
                              = averageScore(config, fresh.scores, w)
                       /\ trendDirection(scoreHistory, w) = trendDirection(fresh.scores, w)
                 /\ (Len(log) = answer.at) =>
                       /\ stateHistory = EmptyHistory
                       /\ scoreHistory = <<>>
                       /\ \A w \in QueryWindows :
                             /\ averageScore(config, scoreHistory, w)
                                    = [ num |-> config.baselineScore, den |-> ScoreScale ]
                             /\ trendDirection(scoreHistory, w) = "stable")
    /\ [][(answer'.op = "reset" /\ Len(log') = answer'.at /\ Len(log') = Len(log))
              => config' = config]_vars

\* An engine with a timer armed and a score kept was reset and has processed
\* a sample since, which the armed timer would have classified sleepy.
C39_Witness ==
    /\ answer.op = "reset"
    /\ answer.at = 1
    /\ Len(log) = 2
    /\ log[1].cv.eyesClosed
    /\ log[2].cv.eyesClosed
    /\ log[2].timestamp - log[1].timestamp >= config.eyeClosedDuration
    /\ log[2].metrics.state # "sleepy"
    /\ Len(scoreHistory) = 1

----------------------------------------------------------------------------
(* Claims about the API *)

\* The timeSeries stored for the latest request.
StoredSeries ==
    (CHOOSE a \in aggregates :
        a.userId = response.uid /\ a.sessionId = response.body.session.id).timeSeries

\* C19: for an n-point series submitted to POST /sync/sessions the stored
\* timeSeries has ceil(n/5) points, stored point i has the tSec, state and
\* score of submitted point 5i, in order, and at most 4 trailing points are
\* dropped.
C19_SyncDownsampling ==
    response.status = 200 =>
        LET submitted == response.body.timeSeries
            n         == Len(submitted)
            stored    == StoredSeries
        IN  /\ Len(stored) = (n + 4) \div 5
            /\ \A i \in 0..(Len(stored) - 1) :
                   /\ stored[i + 1].tSec = submitted[5 * i + 1].tSec
                   /\ stored[i + 1].state = submitted[5 * i + 1].state
                   /\ stored[i + 1].score = submitted[5 * i + 1].score
            /\ n > 0 => n - (5 * (Len(stored) - 1) + 1) <= 4

\* C19 witness: a 6-point series was stored as its points 0 and 5, which
\* differ in state; point 1 of the series differs from point 0.
C19_Witness ==
    /\ response.status = 200
    /\ Len(response.body.timeSeries) = 6
    /\ Len(StoredSeries) = 2
    /\ StoredSeries[1].tSec = 0 /\ StoredSeries[2].tSec = 5
    /\ StoredSeries[1].state # StoredSeries[2].state
    /\ response.body.timeSeries[2].state # StoredSeries[1].state


DeclaredShape(body) ==
    validBody(body) /\ DateOf(body.session.startedAt) # InvalidDate

\* C24: a request whose body does not have the declared shape is answered
\* with 400 and changes neither the User nor the SessionAggregate
\* collection.
C24_MalformedRejected ==
    [][(response' # response /\ ~DeclaredShape(response'.body)) =>
           /\ response'.status = 400
           /\ UNCHANGED <<aggregates, users>>]_vars

\* The part of C24 about the bodies the schema itself rejects.
SchemaRejects ==
    [][(response' # response /\ ~validBody(response'.body)) =>
           /\ response'.status = 400
           /\ UNCHANGED <<aggregates, users>>]_vars

\* C40: sync data is isolated per user.  A request never removes or changes
\* an aggregate of a user other than the requesting one, so a POST by one
\* user with a session id stored for another leaves that aggregate as it
\* is; GET /sync/sessions answers only with aggregates of the requesting
\* user, each one stored; and GET /sync/sessions/:sessionId answers with the
\* requesting user's aggregate of that id or, when the user has none, 404.
C40_IsolatedPerUser ==
    /\ [][\A a \in aggregates : a \notin aggregates' => response'.uid = a.userId]_vars
    /\ []("sessions" \in DOMAIN response =>
             \A i \in DOMAIN response.sessions :
                 /\ response.sessions[i].userId = response.uid
                 /\ \E a \in aggregates : withoutTimeSeries(a) = response.sessions[i])
    /\ []("sessionId" \in DOMAIN response =>
             IF \E a \in aggregates :
                    a.userId = response.uid /\ a.sessionId = response.sessionId
             THEN /\ response.status = 200
                  /\ response.session \in aggregates
                  /\ response.session.userId = response.uid
                  /\ response.session.sessionId = response.sessionId
             ELSE response.status = 404)

\* One user asked for a session id that is stored for the other user and
\* got 404, having an aggregate of their own.
C40_Witness ==
    /\ "sessionId" \in DOMAIN response
    /\ response.status = 404
    /\ \E a \in aggregates :
          a.sessionId = response.sessionId /\ a.userId # response.uid
    /\ \E a \in aggregates : a.userId = response.uid

============================================================================
